---- MODULE Spec2Model ----
(***************************************************************************)
(* Session-change reconciliation of the mentor dashboard: the swap-mentor, *)
(* reschedule and session-update request handlers over the schedule store, *)
(* the meeting provider and the notification dispatch.                     *)
(***************************************************************************)
EXTENDS Integers, Sequences, FiniteSets, TLC

\* ---------------------------------------------------------------- bounds
NumTables == 2
NumMentors == 3
MaxMeetings == 2
MaxRequests == 2

\* ------------------------------------------------------- value universes
Tables == 1..NumTables
Mentors == 1..NumMentors
Dates == {1, 2}
Times == {1}
NoMentor == 0
NoLink == 0
NoValue == 0

MaxRows == 2
RowsIn(t) == IF t = 1 THEN MaxRows ELSE 1
SessionKeys == {k \in Tables \X (1..MaxRows) : k[2] <= RowsIn(k[1])}

\* <cohortType><major>_<minor>_schedule, kept as its three parts; the last
\* table has a name without the two numbers ("demo_schedule")
Unparsed == NumTables
NoNumber == 0 - 1

TableName(t) ==
  IF t = Unparsed
  THEN [typeRaw |-> "demo", major |-> NoNumber, minor |-> NoNumber]
  ELSE [typeRaw |-> IF t % 2 = 1 THEN "basic" ELSE "adv",
        major |-> IF t = 1 THEN 6 ELSE t + 1,
        minor |-> IF t = 1 THEN 0 ELSE 1]

\* /^([a-zA-Z]+)(\d+)_(\d+)$/ on the name without "_schedule"
Matches(name) == name.major # NoNumber /\ name.minor # NoNumber

Capitalize(s) ==
  CASE s = "basic" -> "Basic"
    [] s = "adv" -> "Adv"
    [] s = "demo" -> "Demo"
    [] OTHER -> s

\* batchMatch[1] capitalised, then "<major>.<minor>"; the bare name otherwise
batchName(t) ==
  IF Matches(TableName(t))
  THEN [type |-> Capitalize(TableName(t).typeRaw),
        number |-> <<TableName(t).major, TableName(t).minor>>]
  ELSE [type |-> TableName(t).typeRaw, number |-> <<>>]

NoCohort == [type |-> "none", number |-> <<>>]

parseCohortFromTableName(t) ==
  IF Matches(TableName(t))
  THEN [type |-> Capitalize(TableName(t).typeRaw),
        number |-> <<TableName(t).major, TableName(t).minor>>]
  ELSE NoCohort

\* ------------------------------------------------------------------ state
VARIABLES
  store,      \* schedule tables: session key <<table, id>> -> row
  calendar,   \* meeting provider: join URLs that have a calendar event
  nreq,       \* number of requests received so far
  pre,        \* the store as it was when the current request was received
  restored,   \* history: sessions whose swap was removed and not set again since
  h,          \* frame of the request handler that is running
  su,         \* frame of the session-update run (called by h, or direct)
  fn          \* frame of a helper evaluated on its own (idle in the handlers)

vars == <<store, calendar, nreq, pre, restored, h, su, fn>>

\* the variables of the request handlers
handlerVars == <<store, calendar, nreq, pre, restored, h, su>>

IdleFn == [op |-> "none"]

NoRow ==
  [id |-> 0, date |-> 0, time |-> 0, mentor_id |-> NoMentor,
   swapped_mentor_id |-> NoMentor, session_type |-> "none",
   teams_meeting_link |-> NoLink, email_sent |-> FALSE, whatsapp_sent |-> FALSE,
   subject_name |-> "none"]

InitialMentor(k) == IF k[1] = 1 THEN k[2] ELSE ((k[1] - 1) % NumMentors) + 1
InitialDate(k) == IF k[1] = 1 THEN 1 ELSE 2
InitialSubject(k) == IF k[2] = 2 THEN "none" ELSE IF k[1] = 1 THEN "DSA" ELSE "Web"

Focus == <<1, 1>>

Covered == <<1, 2>>

InitialRow(k, type, link, es, ws, cover) ==
  [id |-> k[2], date |-> InitialDate(k), time |-> 1,
   mentor_id |-> InitialMentor(k),
   swapped_mentor_id |-> IF k = Covered THEN cover ELSE NoMentor,
   session_type |-> IF k = Focus THEN type ELSE "normal",
   teams_meeting_link |-> IF k = Focus THEN link ELSE NoLink,
   email_sent |-> IF k = Focus THEN es ELSE FALSE,
   whatsapp_sent |-> IF k = Focus THEN ws ELSE FALSE,
   subject_name |-> InitialSubject(k)]

IdleH ==
  [kind |-> "none", pc |-> "idle", tableName |-> 0, sessionId |-> 0,
   swappedMentorId |-> NoMentor, newDate |-> NoValue, newTime |-> NoValue,
   session |-> NoRow, ti |-> 0, scanned |-> {}, status |-> 0,
   conflictDetails |-> <<>>, hit |-> <<0, 0>>, newMeetingLink |-> NoLink,
   writes |-> 0, at |-> "none"]

IdleSU ==
  [pc |-> "idle", tableName |-> 0, sessionId |-> 0, newDate |-> NoValue,
   newTime |-> NoValue, changedField |-> "none", oldMentorId |-> NoMentor,
   newMentorId |-> NoMentor, newSessionType |-> "none", isNewSession |-> FALSE,
   skipMeetingRegeneration |-> FALSE, session |-> NoRow, branch |-> "none",
   calls |-> <<>>, meetingDeleted |-> FALSE, meetingCreated |-> FALSE,
   newMeetingLink |-> NoLink, meetingLinkCleared |-> FALSE, sent |-> <<>>,
   notices |-> {},
   phase |-> 0, dispatchDone |-> FALSE, resetIssued |-> FALSE, status |-> 0]

Init ==
  /\ \E type \in {"normal", "contest"}, link \in {NoLink, 1}, es \in BOOLEAN, ws \in BOOLEAN,
        cover \in {NoMentor, NumMentors} :
       /\ type = "contest" => link = NoLink
       /\ store = [k \in SessionKeys |-> InitialRow(k, type, link, es, ws, cover)]
       /\ calendar = (IF link = NoLink THEN {} ELSE {link})
  /\ nreq = 0
  /\ pre = store
  /\ restored = {}
  /\ h = IdleH
  /\ su = IdleSU
  /\ fn = IdleFn

\* ------------------------------------------------------- store adapter
\* .from(table).select('*').eq('id', id).single()
HasRow(t, id) == <<t, id>> \in SessionKeys

RowsAtMutNoDate(t, d, tm) ==
  LET all == [i \in 1..RowsIn(t) |-> store[<<t, i>>]]
      AtSlot(r) == r.time = tm
  IN SelectSeq(all, AtSlot)

\* .from(table).select(...).eq('date', d).eq('time', tm), in row order
RowsAt(t, d, tm) ==
  LET all == [i \in 1..RowsIn(t) |-> store[<<t, i>>]]
      AtSlot(r) == r.date = d /\ r.time = tm
  IN SelectSeq(all, AtSlot)

\* ------------------------------------------------------- conflict detector
isOriginalMentorMutNever(conflict, swappedMentorId) == FALSE

isOriginalMentor(conflict, swappedMentorId) == conflict.mentor_id = swappedMentorId
isSwappedMentor(conflict, swappedMentorId) == conflict.swapped_mentor_id = swappedMentorId
isSwappedAway(conflict, swappedMentorId) ==
  isOriginalMentor(conflict, swappedMentorId) /\ conflict.swapped_mentor_id # NoMentor

IsBusyMutSwappedAway(conflict, swappedMentorId) ==
  isOriginalMentor(conflict, swappedMentorId) \/ isSwappedMentor(conflict, swappedMentorId)

IsBusy(conflict, swappedMentorId) ==
  \/ (isOriginalMentor(conflict, swappedMentorId) /\ ~isSwappedAway(conflict, swappedMentorId))
  \/ isSwappedMentor(conflict, swappedMentorId)

IsSameSessionMutIdOnly(checkTableName, conflict, tableName, sessionId) ==
  conflict.id = sessionId

\* the row skipped by the scan: the session being swapped
IsSameSession(checkTableName, conflict, tableName, sessionId) ==
  checkTableName = tableName /\ conflict.id = sessionId

\* rows of one scanned table that block the swap, in row order
ConflictsIn(checkTableName, f) ==
  LET Blocks(conflict) ==
        /\ ~IsSameSession(checkTableName, conflict, f.tableName, f.sessionId)
        /\ IsBusy(conflict, f.swappedMentorId)
  IN SelectSeq(RowsAt(checkTableName, f.session.date, f.session.time), Blocks)

ConflictDetailMutOwnTable(checkTableName, conflict) ==
  [tableName |-> TableName(h.tableName),
   batchName |-> batchName(h.tableName),
   subjectName |-> IF conflict.subject_name = "none" THEN "Session" ELSE conflict.subject_name]

ConflictDetail(checkTableName, conflict) ==
  [tableName |-> TableName(checkTableName),
   batchName |-> batchName(checkTableName),
   subjectName |-> IF conflict.subject_name = "none" THEN "Session" ELSE conflict.subject_name]

\* ------------------------------------------------------- request intake
CanReceive == h.pc \in {"idle", "done", "crashed"} /\ nreq < MaxRequests

Received(frame) ==
  /\ nreq' = nreq + 1
  /\ pre' = store
  /\ h' = frame
  /\ su' = IdleSU
  /\ UNCHANGED <<fn, store, calendar, restored>>

Respond(status) == [h EXCEPT !.pc = "done", !.status = status]

\* ------------------------------------ swap-mentor handler (conflict-checked)
\* request parsing and the required-field check
SwapRequest(t, id, m) ==
  /\ CanReceive
  /\ Received([IdleH EXCEPT !.kind = "swap", !.tableName = t, !.sessionId = id,
                            !.swappedMentorId = m,
                            !.pc = IF id = 0 THEN "done" ELSE "fetch",
                            !.status = IF id = 0 THEN 400 ELSE 0])

\* fetch session details before update
SwapFetch ==
  /\ h.kind = "swap" /\ h.pc = "fetch"
  /\ \/ h' = Respond(404)
     \/ /\ HasRow(h.tableName, h.sessionId)
        /\ h' = [h EXCEPT !.session = store[<<h.tableName, h.sessionId>>],
                          !.pc = IF h.swappedMentorId # NoMentor THEN "tables" ELSE "update"]
  /\ UNCHANGED <<fn, store, calendar, nreq, pre, restored, su>>

\* rpc('get_schedule_tables')
SwapTables ==
  /\ h.kind = "swap" /\ h.pc = "tables"
  /\ \/ h' = [h EXCEPT !.pc = "update"]
     \/ h' = [h EXCEPT !.pc = "scan", !.ti = 1]
  /\ UNCHANGED <<fn, store, calendar, nreq, pre, restored, su>>

AfterTable(f) == IF f.ti = NumTables THEN "update" ELSE "scan"

\* the loop variables are out of scope once Step 1 has run
LeaveScan(f) == [f EXCEPT !.ti = 0, !.scanned = {}]

SwapScanMutWarn ==
  /\ h.kind = "swap" /\ h.pc = "scan"
  /\ LET checkTableName == h.ti
     IN \/ h' = [h EXCEPT !.ti = h.ti + 1, !.pc = AfterTable(h)]
        \/ h' = [h EXCEPT !.ti = h.ti + 1, !.pc = AfterTable(h),
                          !.scanned = h.scanned \cup {checkTableName}]
  /\ UNCHANGED <<fn, store, calendar, nreq, pre, restored, su>>

\* one iteration of the loop over the schedule tables
SwapScan ==
  /\ h.kind = "swap" /\ h.pc = "scan"
  /\ LET checkTableName == h.ti
         conflicts == ConflictsIn(checkTableName, h)
     IN \/ h' = [h EXCEPT !.ti = h.ti + 1, !.pc = AfterTable(h)]
        \/ /\ conflicts = <<>>
           /\ h' = [h EXCEPT !.ti = h.ti + 1, !.pc = AfterTable(h),
                             !.scanned = h.scanned \cup {checkTableName}]
        \/ /\ conflicts # <<>>
           /\ h' = [h EXCEPT !.pc = "done", !.status = 409,
                             !.scanned = h.scanned \cup {checkTableName},
                             !.conflictDetails = <<ConflictDetail(checkTableName, Head(conflicts))>>,
                             !.hit = <<checkTableName, Head(conflicts).id>>]
  /\ UNCHANGED <<fn, store, calendar, nreq, pre, restored, su>>

\* body of the call to /api/cohort/session-update made by the swap handler
SwapBody(f) ==
  [IdleSU EXCEPT !.pc = "fetch", !.tableName = f.tableName, !.sessionId = f.sessionId,
                 !.newDate = f.session.date, !.newTime = f.session.time,
                 !.changedField = "swapped_mentor_id",
                 !.oldMentorId = IF f.session.swapped_mentor_id # NoMentor
                                 THEN f.session.swapped_mentor_id ELSE f.session.mentor_id,
                 !.newMentorId = f.swappedMentorId,
                 !.skipMeetingRegeneration = (f.session.teams_meeting_link = NoLink)]

\* history of removed swaps, kept beside a write of swapped_mentor_id
Restore(f) ==
  IF f.swappedMentorId # NoMentor THEN restored \ {<<f.tableName, f.sessionId>>}
  ELSE IF f.session.swapped_mentor_id # NoMentor
  THEN restored \cup {<<f.tableName, f.sessionId>>}
  ELSE restored

\* Step 1: update swapped_mentor_id; a removal returns without calling session-update
SwapUpdate ==
  /\ h.kind = "swap" /\ h.pc = "update"
  /\ \/ /\ h' = LeaveScan([Respond(500) EXCEPT !.writes = h.writes + 1])
        /\ UNCHANGED <<fn, store, restored>>
     \/ /\ store' = [store EXCEPT ![<<h.tableName, h.sessionId>>].swapped_mentor_id = h.swappedMentorId]
        /\ restored' = Restore(h)
        /\ h' = IF h.swappedMentorId # NoMentor
                THEN LeaveScan([h EXCEPT !.pc = "callSU", !.writes = h.writes + 1])
                ELSE LeaveScan([Respond(200) EXCEPT !.writes = h.writes + 1])
  /\ UNCHANGED <<fn, calendar, nreq, pre, su>>

\* Step 2: fetch(`${baseUrl}/api/cohort/session-update`)
SwapCallSU ==
  /\ h.kind = "swap" /\ h.pc = "callSU"
  /\ \/ h' = Respond(500) /\ UNCHANGED su
     \/ h' = [h EXCEPT !.pc = "awaitSU"] /\ su' = SwapBody(h)
  /\ UNCHANGED <<fn, store, calendar, nreq, pre, restored>>

\* the response of session-update is informational only
SwapReturn ==
  /\ h.kind = "swap" /\ h.pc = "awaitSU" /\ su.pc = "returned"
  /\ h' = [Respond(200) EXCEPT !.newMeetingLink =
             IF su.status = 200 THEN su.newMeetingLink ELSE NoLink]
  /\ UNCHANGED <<fn, store, calendar, nreq, pre, restored, su>>

\* ------------------------------------------------------ reschedule handler
RescheduleRequest(t, id, newDate, newTime) ==
  /\ CanReceive
  /\ Received([IdleH EXCEPT !.kind = "reschedule", !.tableName = t, !.sessionId = id,
                            !.newDate = newDate, !.newTime = newTime,
                            !.pc = IF id = 0 \/ newDate = NoValue THEN "done" ELSE "fetch",
                            !.status = IF id = 0 \/ newDate = NoValue THEN 400 ELSE 0])

RescheduleFetchMutWriteFirst ==
  /\ h.kind = "reschedule" /\ h.pc = "fetch"
  /\ \/ /\ h' = [Respond(404) EXCEPT !.writes = h.writes + 1]
        /\ UNCHANGED store
     \/ /\ HasRow(h.tableName, h.sessionId)
        /\ h' = [h EXCEPT !.session = store[<<h.tableName, h.sessionId>>], !.pc = "update"]
        /\ UNCHANGED store
  /\ UNCHANGED <<fn, calendar, nreq, pre, restored, su>>

RescheduleFetch ==
  /\ h.kind = "reschedule" /\ h.pc = "fetch"
  /\ \/ h' = Respond(404)
     \/ /\ HasRow(h.tableName, h.sessionId)
        /\ h' = [h EXCEPT !.session = store[<<h.tableName, h.sessionId>>], !.pc = "update"]
  /\ UNCHANGED <<fn, store, calendar, nreq, pre, restored, su>>

RescheduleUpdateMutSwallow ==
  /\ h.kind = "reschedule" /\ h.pc = "update"
  /\ \/ /\ h' = [h EXCEPT !.pc = "callSU", !.writes = h.writes + 1]
        /\ UNCHANGED store
     \/ /\ store' = [store EXCEPT ![<<h.tableName, h.sessionId>>] =
                       [@ EXCEPT !.date = h.newDate,
                                 !.time = IF h.newTime # NoValue THEN h.newTime ELSE @]]
        /\ h' = [h EXCEPT !.pc = "callSU", !.writes = h.writes + 1]
  /\ UNCHANGED <<fn, calendar, nreq, pre, restored, su>>

\* Step 1: update date (and day), and time when a new time is given
RescheduleUpdate ==
  /\ h.kind = "reschedule" /\ h.pc = "update"
  /\ \/ /\ h' = [Respond(500) EXCEPT !.writes = h.writes + 1]
        /\ UNCHANGED store
     \/ /\ store' = [store EXCEPT ![<<h.tableName, h.sessionId>>] =
                       [@ EXCEPT !.date = h.newDate,
                                 !.time = IF h.newTime # NoValue THEN h.newTime ELSE @]]
        /\ h' = [h EXCEPT !.pc = "callSU", !.writes = h.writes + 1]
  /\ UNCHANGED <<fn, calendar, nreq, pre, restored, su>>

RescheduleBody(f) ==
  [IdleSU EXCEPT !.pc = "fetch", !.tableName = f.tableName, !.sessionId = f.sessionId,
                 !.newDate = f.newDate,
                 !.newTime = IF f.newTime # NoValue THEN f.newTime ELSE f.session.time,
                 !.changedField = "date",
                 !.skipMeetingRegeneration = FALSE]

RescheduleCallSU ==
  /\ h.kind = "reschedule" /\ h.pc = "callSU"
  /\ \/ h' = Respond(500) /\ UNCHANGED su
     \/ h' = [h EXCEPT !.pc = "awaitSU"] /\ su' = RescheduleBody(h)
  /\ UNCHANGED <<fn, store, calendar, nreq, pre, restored>>

RescheduleReturn ==
  /\ h.kind = "reschedule" /\ h.pc = "awaitSU" /\ su.pc = "returned"
  /\ h' = [Respond(200) EXCEPT !.newMeetingLink =
             IF su.status = 200 THEN su.newMeetingLink ELSE NoLink]
  /\ UNCHANGED <<fn, store, calendar, nreq, pre, restored, su>>

\* --------------------------------------------------- session-update handler
currentIsContest(session) == session.session_type = "contest"
changedToContest(body) == body.newSessionType = "contest"
isContest(session, body) == currentIsContest(session) \/ changedToContest(body)

MeetingBranchMutNewFirst(session, body) ==
  IF isContest(session, body)
  THEN IF changedToContest(body) /\ session.teams_meeting_link # NoLink
       THEN "contest" ELSE "none"
  ELSE IF body.isNewSession THEN "new"
  ELSE IF session.teams_meeting_link # NoLink /\ ~body.skipMeetingRegeneration
       THEN "regen"
  ELSE "none"

\* Step 1: which meeting action the run takes
MeetingBranch(session, body) ==
  IF isContest(session, body)
  THEN IF changedToContest(body) /\ session.teams_meeting_link # NoLink
       THEN "contest" ELSE "none"
  ELSE IF session.teams_meeting_link # NoLink /\ ~body.skipMeetingRegeneration
       THEN "regen"
  ELSE IF body.isNewSession /\ session.teams_meeting_link = NoLink /\ ~isContest(session, body)
       THEN "new"
  ELSE "none"

isSwapChange(body) == body.changedField = "swapped_mentor_id"

shouldSendNotificationsMutAlways(session, body) == TRUE

shouldSendNotifications(session, body) ==
  isSwapChange(body) \/ session.email_sent = TRUE \/ session.whatsapp_sent = TRUE

\* where the run goes once Step 1 is over (its errors are caught and logged)
AfterMeeting(f) == IF shouldSendNotifications(f.session, f) THEN "dispatch" ELSE "reset"

\* fetch the session, then decide the meeting action
SU_Fetch ==
  /\ su.pc = "fetch"
  /\ \/ su' = [su EXCEPT !.pc = "returned", !.status = 404]
     \/ /\ HasRow(su.tableName, su.sessionId)
        /\ LET session == store[<<su.tableName, su.sessionId>>]
               branch == MeetingBranch(session, su)
               f == [su EXCEPT !.session = session, !.branch = branch]
           IN su' = [f EXCEPT !.pc = IF branch = "none" THEN AfterMeeting(f) ELSE "token"]
  /\ UNCHANGED <<fn, store, calendar, nreq, pre, restored, h>>

SU_TokenMutAbort ==
  /\ su.pc = "token"
  /\ \/ su' = [su EXCEPT !.pc = "returned", !.status = 500]
     \/ su' = [su EXCEPT !.pc = IF su.branch = "new" THEN "create" ELSE "delete"]
  /\ UNCHANGED <<fn, store, calendar, nreq, pre, restored, h>>

\* getAccessToken(): throws on missing credentials or a refused token request
SU_Token ==
  /\ su.pc = "token"
  /\ \/ su' = [su EXCEPT !.pc = AfterMeeting(su)]
     \/ su' = [su EXCEPT !.pc = IF su.branch = "new" THEN "create" ELSE "delete"]
  /\ UNCHANGED <<fn, store, calendar, nreq, pre, restored, h>>

SU_DeleteMutAbort ==
  /\ su.pc = "delete"
  /\ LET link == su.session.teams_meeting_link
         next == IF su.branch = "contest" THEN "clear" ELSE "create"
     IN \/ /\ su' = [su EXCEPT !.pc = AfterMeeting(su), !.calls = Append(su.calls, "delete"),
                               !.meetingDeleted = FALSE]
           /\ UNCHANGED <<fn, calendar, restored>>
        \/ /\ link \in calendar
           /\ calendar' = calendar \ {link}
           /\ su' = [su EXCEPT !.pc = next, !.calls = Append(su.calls, "delete"),
                               !.meetingDeleted = TRUE]
  /\ UNCHANGED <<fn, store, nreq, pre, restored, h>>

\* deleteTeamsMeeting(): true only when the calendar entry was found and removed
SU_Delete ==
  /\ su.pc = "delete"
  /\ LET link == su.session.teams_meeting_link
         next == IF su.branch = "contest" THEN "clear" ELSE "create"
     IN \/ /\ su' = [su EXCEPT !.pc = next, !.calls = Append(su.calls, "delete"),
                               !.meetingDeleted = FALSE]
           /\ UNCHANGED <<fn, calendar, restored>>
        \/ /\ link \in calendar
           /\ calendar' = calendar \ {link}
           /\ su' = [su EXCEPT !.pc = next, !.calls = Append(su.calls, "delete"),
                               !.meetingDeleted = TRUE]
  /\ UNCHANGED <<fn, store, nreq, pre, restored, h>>

\* update({ teams_meeting_link: null }); the result of the update is not read
SU_Clear ==
  /\ su.pc = "clear"
  /\ \/ UNCHANGED store
     \/ store' = [store EXCEPT ![<<su.tableName, su.sessionId>>].teams_meeting_link = NoLink]
  /\ su' = [su EXCEPT !.pc = AfterMeeting(su), !.meetingLinkCleared = TRUE]
  /\ h' = [h EXCEPT !.writes = h.writes + 1]
  /\ UNCHANGED <<fn, calendar, nreq, pre, restored>>

\* join URLs the provider can hand out: never one that is stored or on the calendar
FreshLinks(old) ==
  {m \in 1..MaxMeetings :
     /\ m \notin calendar
     /\ m # old
     /\ \A k \in SessionKeys : store[k].teams_meeting_link # m}

NewJoinUrl(old) == CHOOSE m \in FreshLinks(old) : \A n \in FreshLinks(old) : m <= n

\* createTeamsMeeting(): throws, returns null, or returns the join URL;
\* the calendar event of step 3 may fail without failing the creation
SU_Create ==
  /\ su.pc = "create"
  /\ \/ /\ su' = [su EXCEPT !.pc = AfterMeeting(su), !.calls = Append(su.calls, "create")]
        /\ UNCHANGED <<fn, calendar, restored>>
     \/ /\ FreshLinks(su.session.teams_meeting_link) # {}
        /\ LET newLink == NewJoinUrl(su.session.teams_meeting_link)
           IN /\ su' = [su EXCEPT !.pc = "persist", !.calls = Append(su.calls, "create"),
                                  !.meetingCreated = TRUE, !.newMeetingLink = newLink]
              /\ calendar' \in {calendar, calendar \cup {newLink}}
  /\ UNCHANGED <<fn, store, nreq, pre, restored, h>>

\* update({ teams_meeting_link: newLink })
SU_Persist ==
  /\ su.pc = "persist"
  /\ \/ UNCHANGED store
     \/ store' = [store EXCEPT ![<<su.tableName, su.sessionId>>].teams_meeting_link =
                    su.newMeetingLink]
  /\ su' = [su EXCEPT !.pc = AfterMeeting(su), !.calls = Append(su.calls, "persist")]
  /\ h' = [h EXCEPT !.writes = h.writes + 1]
  /\ UNCHANGED <<fn, calendar, nreq, pre, restored>>

\* Step 2: the update type handed to sendUpdateNotifications()
updateType(body) ==
  IF body.changedField \in {"date", "time"} THEN "reschedule"
  ELSE IF body.changedField \in {"mentor_id", "swapped_mentor_id"} THEN "details_updated"
  ELSE IF body.changedField \in {"subject_name", "session_type", "subject_topic"}
       THEN "details_updated"
  ELSE "reschedule"

\* session.swapped_mentor_id ?? session.mentor_id
effectiveMentorId(session) ==
  IF session.swapped_mentor_id # NoMentor THEN session.swapped_mentor_id
  ELSE session.mentor_id

\* the two sends to one recipient, in order: the email, then the WhatsApp message
Notice(role, id, variant, emailLink, waLink) ==
  <<[role |-> role, id |-> id, variant |-> variant, channel |-> "email", link |-> emailLink],
   [role |-> role, id |-> id, variant |-> variant, channel |-> "whatsapp", link |-> waLink]>>

StudentNoticesMutOldLink(f) ==
  IF updateType(f) \in {"reschedule", "details_updated"}
  THEN Notice("student", 0, updateType(f), f.session.teams_meeting_link,
              f.session.teams_meeting_link)
  ELSE <<>>

\* 1. students, whenever the update type is reschedule or details_updated
StudentNotices(f) ==
  IF updateType(f) \in {"reschedule", "details_updated"}
  THEN Notice("student", 0, updateType(f), f.newMeetingLink, f.newMeetingLink)
  ELSE <<>>

SwapNoticesMutNoDedup(f) ==
  (IF f.session.mentor_id # NoMentor
   THEN Notice("mentor", f.session.mentor_id,
               IF f.newMentorId # NoMentor THEN "covered" ELSE "restored",
               f.newMeetingLink, f.newMeetingLink)
   ELSE <<>>)
  \o (IF f.newMentorId # NoMentor
        THEN Notice("mentor", f.newMentorId, "coverage_assigned",
                    f.newMeetingLink, f.newMeetingLink)
        ELSE <<>>)
  \o (IF f.oldMentorId # NoMentor
        THEN Notice("mentor", f.oldMentorId, "coverage_removed", NoLink, NoLink)
        ELSE <<>>)

\* 2a-2c. original mentor, new covering mentor, old covering mentor
SwapNotices(f) ==
  LET originalMentor == f.session.mentor_id
      swappedMentor == f.newMentorId
      oldSwappedMentor == f.oldMentorId
  IN (IF originalMentor # NoMentor
      THEN Notice("mentor", originalMentor,
                  IF f.newMentorId # NoMentor THEN "covered" ELSE "restored",
                  f.newMeetingLink, f.newMeetingLink)
      ELSE <<>>)
     \o (IF swappedMentor # NoMentor
           THEN Notice("mentor", swappedMentor, "coverage_assigned",
                       f.newMeetingLink, f.newMeetingLink)
           ELSE <<>>)
     \o (IF oldSwappedMentor # NoMentor /\ oldSwappedMentor # swappedMentor
           THEN Notice("mentor", oldSwappedMentor, "coverage_removed", NoLink, NoLink)
           ELSE <<>>)

MentorNoticesMutOriginal(f) ==
  IF isSwapChange(f) THEN SwapNotices(f)
  ELSE IF f.session.mentor_id # NoMentor
  THEN Notice("mentor", f.session.mentor_id, updateType(f), f.newMeetingLink, f.newMeetingLink)
  ELSE <<>>

MentorNoticesMutSameVariant(f) ==
  LET currentMentor == effectiveMentorId(f.session)
      newMentor == IF f.newMentorId # NoMentor /\ ~isSwapChange(f)
                   THEN f.newMentorId ELSE NoMentor
  IN (IF isSwapChange(f) THEN SwapNotices(f)
      ELSE IF currentMentor # NoMentor
      THEN Notice("mentor", currentMentor, updateType(f), f.newMeetingLink, f.newMeetingLink)
      ELSE <<>>)
     \o (IF newMentor # NoMentor
         THEN Notice("mentor", newMentor, updateType(f), NoLink, f.newMeetingLink)
         ELSE <<>>)

\* 2. current mentor (no swap), 3. old mentor, 4. new mentor
MentorNotices(f) ==
  LET currentMentor == effectiveMentorId(f.session)
      oldMentor == IF f.oldMentorId # NoMentor /\ f.oldMentorId # currentMentor
                      /\ ~isSwapChange(f)
                   THEN f.oldMentorId ELSE NoMentor
      newMentor == IF f.newMentorId # NoMentor
                      /\ f.newMentorId # (IF f.oldMentorId # NoMentor THEN f.oldMentorId
                                          ELSE f.session.mentor_id)
                      /\ ~isSwapChange(f)
                   THEN f.newMentorId ELSE NoMentor
  IN (IF isSwapChange(f) THEN SwapNotices(f)
      ELSE IF currentMentor # NoMentor
      THEN Notice("mentor", currentMentor, updateType(f), f.newMeetingLink, f.newMeetingLink)
      ELSE <<>>)
     \o (IF oldMentor # NoMentor
           THEN Notice("mentor", oldMentor, "removed", NoLink, f.newMeetingLink)
           ELSE <<>>)
     \o (IF newMentor # NoMentor
           THEN Notice("mentor", newMentor, "assigned", NoLink, f.newMeetingLink)
           ELSE <<>>)

\* 5. all supermentors
SupermentorNotices(f) ==
  Notice("supermentor", 0, updateType(f), f.newMeetingLink, f.newMeetingLink)

NoticesFor(audience, f) ==
  CASE audience = "students" -> StudentNotices(f)
    [] audience = "mentors" -> MentorNotices(f)
    [] audience = "supermentors" -> SupermentorNotices(f)

\* sendUpdateNotifications(), one audience after the other
Audiences == <<"students", "mentors", "supermentors">>

SU_DispatchMutResetFirst ==
  /\ su.pc = "dispatch"
  /\ su.phase < Len(Audiences)
  /\ \/ /\ parseCohortFromTableName(su.tableName) = NoCohort
        /\ su' = [su EXCEPT !.pc = "reset", !.dispatchDone = TRUE]
     \/ /\ parseCohortFromTableName(su.tableName) # NoCohort
        /\ \/ su' = [su EXCEPT
                       !.phase = su.phase + 1,
                       !.sent = su.sent \o NoticesFor(Audiences[su.phase + 1], su),
                       !.notices = LET new == NoticesFor(Audiences[su.phase + 1], su)
                                   IN su.notices \cup {new[i] : i \in 1..Len(new)},
                       !.pc = IF su.phase + 1 = Len(Audiences) THEN "reset" ELSE "dispatch",
                       !.dispatchDone = (su.phase + 1 = Len(Audiences))]
           \/ su' = [su EXCEPT !.pc = "reset", !.dispatchDone = TRUE]
  /\ store' = [store EXCEPT ![<<su.tableName, su.sessionId>>] =
                 [@ EXCEPT !.email_sent = FALSE, !.whatsapp_sent = FALSE]]
  /\ UNCHANGED <<fn, calendar, nreq, pre, restored, h>>

\* a table name that does not parse ends the dispatch at once; an error inside
\* the dispatch is caught there: the remaining audiences are skipped and the
\* dispatch returns
SU_Dispatch ==
  /\ su.pc = "dispatch"
  /\ su.phase < Len(Audiences)
  /\ \/ /\ parseCohortFromTableName(su.tableName) = NoCohort
        /\ su' = [su EXCEPT !.pc = "reset", !.dispatchDone = TRUE]
     \/ /\ parseCohortFromTableName(su.tableName) # NoCohort
        /\ \/ su' = [su EXCEPT
                       !.phase = su.phase + 1,
                       !.sent = su.sent \o NoticesFor(Audiences[su.phase + 1], su),
                       !.notices = LET new == NoticesFor(Audiences[su.phase + 1], su)
                                   IN su.notices \cup {new[i] : i \in 1..Len(new)},
                       !.pc = IF su.phase + 1 = Len(Audiences) THEN "reset" ELSE "dispatch",
                       !.dispatchDone = (su.phase + 1 = Len(Audiences))]
           \/ su' = [su EXCEPT !.pc = "reset", !.dispatchDone = TRUE]
  /\ UNCHANGED <<fn, store, calendar, nreq, pre, restored, h>>

\* Step 3: reset email_sent and whatsapp_sent when either was set, then respond
SU_Reset ==
  /\ su.pc = "reset"
  /\ \/ /\ ~(su.session.email_sent = TRUE \/ su.session.whatsapp_sent = TRUE)
        /\ su' = [su EXCEPT !.pc = "returned", !.status = 200]
        /\ UNCHANGED <<fn, store, h>>
     \/ /\ su.session.email_sent = TRUE \/ su.session.whatsapp_sent = TRUE
        /\ \/ UNCHANGED store
           \/ store' = [store EXCEPT ![<<su.tableName, su.sessionId>>] =
                          [@ EXCEPT !.email_sent = FALSE, !.whatsapp_sent = FALSE]]
        /\ su' = [su EXCEPT !.pc = "returned", !.status = 200, !.resetIssued = TRUE]
        /\ h' = [h EXCEPT !.writes = h.writes + 1]
  /\ UNCHANGED <<fn, calendar, nreq, pre, restored>>

\* ------------------------------------- direct calls of session-update
\* a details change or a new session: the caller has stored the change already
DirectRequest(t, id, isNewSession, skip, newSessionType, oldMentorId, newMentorId) ==
  /\ CanReceive
  /\ nreq' = nreq + 1
  /\ pre' = store
  /\ h' = [IdleH EXCEPT !.kind = "direct", !.tableName = t, !.sessionId = id, !.pc = "awaitSU"]
  /\ su' = [IdleSU EXCEPT !.tableName = t, !.sessionId = id,
                          !.changedField = IF newSessionType # "none" THEN "session_type"
                                           ELSE IF newMentorId # NoMentor THEN "mentor_id"
                                           ELSE "subject_name",
                          !.oldMentorId = oldMentorId,
                          !.newMentorId = newMentorId,
                          !.newSessionType = newSessionType,
                          !.isNewSession = isNewSession,
                          !.skipMeetingRegeneration = skip,
                          !.pc = IF id = 0 THEN "returned" ELSE "fetch",
                          !.status = IF id = 0 THEN 400 ELSE 0]
  /\ UNCHANGED <<fn, store, calendar, restored>>

\* the session type is edited: the editor stores it, then calls session-update
DetailsEdit(t, id, newSessionType) ==
  /\ CanReceive
  /\ HasRow(t, id)
  /\ store[<<t, id>>].session_type # newSessionType
  /\ nreq' = nreq + 1
  /\ pre' = store
  /\ store' = [store EXCEPT ![<<t, id>>].session_type = newSessionType]
  /\ h' = [IdleH EXCEPT !.kind = "direct", !.tableName = t, !.sessionId = id, !.pc = "awaitSU"]
  /\ su' = [IdleSU EXCEPT !.tableName = t, !.sessionId = id,
                          !.changedField = "session_type",
                          !.newSessionType = newSessionType,
                          !.pc = "fetch"]
  /\ UNCHANGED <<fn, calendar, restored>>

DirectReturn ==
  /\ h.kind = "direct" /\ h.pc = "awaitSU" /\ su.pc = "returned"
  /\ h' = [Respond(su.status) EXCEPT !.newMeetingLink = su.newMeetingLink]
  /\ UNCHANGED <<fn, store, calendar, nreq, pre, restored, su>>

\* ----------------------- swap-mentor handler, variant that creates the meeting
LegacySwapRequest(t, id, m) ==
  /\ CanReceive
  /\ Received([IdleH EXCEPT !.kind = "legacy", !.tableName = t, !.sessionId = id,
                            !.swappedMentorId = m,
                            !.pc = IF id = 0 THEN "done" ELSE "fetch",
                            !.status = IF id = 0 THEN 400 ELSE 0])

\* fetch the session and the mentors; newMeetingLink starts as the stored link
LegacySwapFetch ==
  /\ h.kind = "legacy" /\ h.pc = "fetch"
  /\ \/ h' = Respond(404)
     \/ /\ HasRow(h.tableName, h.sessionId)
        /\ LET session == store[<<h.tableName, h.sessionId>>]
           IN h' = [h EXCEPT !.session = session,
                             !.newMeetingLink = session.teams_meeting_link,
                             !.pc = IF session.teams_meeting_link # NoLink
                                       /\ h.swappedMentorId # NoMentor
                                    THEN "create" ELSE "update"]
  /\ UNCHANGED <<fn, store, calendar, nreq, pre, restored, su>>

\* POST /api/teams/create-meeting; a failure keeps the stored link
LegacySwapCreate ==
  /\ h.kind = "legacy" /\ h.pc = "create"
  /\ \/ h' = [h EXCEPT !.pc = "update"] /\ UNCHANGED calendar
     \/ /\ FreshLinks(h.session.teams_meeting_link) # {}
        /\ LET joinUrl == NewJoinUrl(h.session.teams_meeting_link)
           IN /\ h' = [h EXCEPT !.pc = "update", !.newMeetingLink = joinUrl]
              /\ calendar' \in {calendar, calendar \cup {joinUrl}}
  /\ UNCHANGED <<fn, store, nreq, pre, restored, su>>

\* update swapped_mentor_id, and the meeting link when a new one was created
LegacySwapUpdate ==
  /\ h.kind = "legacy" /\ h.pc = "update"
  /\ \/ /\ h' = [Respond(500) EXCEPT !.writes = h.writes + 1]
        /\ UNCHANGED <<fn, store, restored>>
     \/ /\ store' = [store EXCEPT ![<<h.tableName, h.sessionId>>] =
                       [@ EXCEPT !.swapped_mentor_id = h.swappedMentorId,
                                 !.teams_meeting_link =
                                    IF h.newMeetingLink # h.session.teams_meeting_link
                                    THEN h.newMeetingLink ELSE @]]
        /\ restored' = Restore(h)
        /\ h' = IF h.swappedMentorId # NoMentor
                   /\ (h.session.email_sent = TRUE \/ h.session.whatsapp_sent = TRUE)
                THEN [h EXCEPT !.pc = "notify", !.writes = h.writes + 1]
                ELSE [Respond(200) EXCEPT !.writes = h.writes + 1]
  /\ UNCHANGED <<fn, calendar, nreq, pre, su>>

\* swap notifications to super mentors, the new mentor and the students
LegacySwapNotify ==
  /\ h.kind = "legacy" /\ h.pc = "notify"
  /\ h' = Respond(200)
  /\ UNCHANGED <<fn, store, calendar, nreq, pre, restored, su>>

\* ------------------------------------------------------------ environment
\* the process serving the request stops (platform timeout, restart)
Stop ==
  /\ h.pc \notin {"idle", "done", "crashed"}
  /\ h' = [IdleH EXCEPT !.kind = h.kind, !.tableName = h.tableName,
                        !.sessionId = h.sessionId, !.pc = "crashed",
                        !.at = IF h.pc = "awaitSU" THEN su.pc ELSE h.pc]
  /\ su' = IdleSU
  /\ UNCHANGED <<fn, store, calendar, nreq, pre, restored>>

\* request inputs: every session with every mentor choice, one request without
\* a session id and one whose id matches no row
BadIds == {<<1, 0>>, <<NumTables, MaxRows>>}
\* reassignments <<old mentor, new mentor>> reported for the session of mentor 1:
\* one already stored (2 to 1), one not stored (1 to 3), one naming the same
\* mentor twice
MentorChanges == {<<2, 1>>, <<1, NumMentors>>, <<1, 1>>}
SwapInputs ==
  (SessionKeys \X ({NoMentor} \cup Mentors)) \cup (BadIds \X {NoMentor})
RescheduleInputs ==
  (SessionKeys \X Dates \X {NoValue}) \cup ({Focus} \X Dates \X Times)
    \cup (BadIds \X {1} \X {NoValue})
DirectInputs ==
  ({Focus} \X BOOLEAN \X BOOLEAN \X {"none", "contest"} \X {<<NoMentor, NoMentor>>})
    \cup ({Focus} \X {FALSE} \X {FALSE} \X {"none"} \X MentorChanges)
    \cup (BadIds \X {FALSE} \X {FALSE} \X {"none"} \X {<<NoMentor, NoMentor>>})
LegacySwapInputs ==
  ({Focus} \X ({NoMentor} \cup Mentors)) \cup (BadIds \X {NoMentor})

Next ==
  \/ \E r \in SwapInputs : SwapRequest(r[1][1], r[1][2], r[2])
  \/ SwapFetch
  \/ SwapTables
  \/ SwapScan
  \/ SwapUpdate
  \/ SwapCallSU
  \/ SwapReturn
  \/ \E r \in RescheduleInputs : RescheduleRequest(r[1][1], r[1][2], r[2], r[3])
  \/ RescheduleFetch
  \/ RescheduleUpdate
  \/ RescheduleCallSU
  \/ RescheduleReturn
  \/ SU_Fetch
  \/ SU_Token
  \/ SU_Delete
  \/ SU_Clear
  \/ SU_Create
  \/ SU_Persist
  \/ SU_Dispatch
  \/ SU_Reset
  \/ \E r \in DirectInputs : DirectRequest(r[1][1], r[1][2], r[2], r[3], r[4], r[5][1], r[5][2])
  \/ \E type \in {"normal", "contest"} : DetailsEdit(Focus[1], Focus[2], type)
  \/ DirectReturn
  \/ \E r \in LegacySwapInputs : LegacySwapRequest(r[1][1], r[1][2], r[2])
  \/ LegacySwapFetch
  \/ LegacySwapCreate
  \/ LegacySwapUpdate
  \/ LegacySwapNotify
  \/ Stop

Spec == Init /\ [][Next]_vars

\* ================================================================ claims
Self(f) == <<f.tableName, f.sessionId>>

\* swappedMentorId ?? mentorId
EffectiveMentor(r) ==
  IF r.swapped_mentor_id # NoMentor THEN r.swapped_mentor_id ELSE r.mentor_id

\* a swap to a mentor whose session row has been fetched
SwapFetched == h.kind = "swap" /\ h.swappedMentorId # NoMentor /\ h.session # NoRow

AtSlotOf(r, f) == r.date = f.session.date /\ r.time = f.session.time

Before(a, b) == a[1] < b[1] \/ (a[1] = b[1] /\ a[2] < b[2])

\* sessions other than the edited one where the candidate is the active mentor
GenuineConflicts(f) ==
  {k \in SessionKeys : /\ k # Self(f)
                       /\ AtSlotOf(pre[k], f)
                       /\ EffectiveMentor(pre[k]) = f.swappedMentorId}

\* ---------------------------------------------------------------- C1
C1_NoWriteBeforeGate ==
  (h.kind = "swap" /\ (h.pc \in {"fetch", "tables", "scan"} \/ h.status = 409))
    => (store = pre /\ h.writes = 0 /\ su = IdleSU)

C1_FoundMeansRejected ==
  [][(h.kind = "swap" /\ h.pc = "scan" /\ h.ti \in h'.scanned
        /\ ConflictsIn(h.ti, h) # <<>>)
       => (h'.pc = "done" /\ h'.status = 409 /\ store' = store)]_vars

\* C1: a swap request whose scan finds the candidate busy ends with 409 and
\* issues no store update (the store equals the store before the request); no
\* update is issued while the scan is still running.
C1_ConflictGate == []C1_NoWriteBeforeGate /\ C1_FoundMeansRejected

C1_Witness == h.kind = "swap" /\ h.pc = "done" /\ h.status = 409 /\ store = pre

\* ---------------------------------------------------------------- C2
\* C2 as stated: a genuine conflict always blocks the swap, whatever fails.
C2_Original ==
  (SwapFetched /\ GenuineConflicts(h) # {})
    => (h.pc \notin {"callSU", "awaitSU"} /\ (h.pc = "done" => h.status >= 400))

\* C2 amended: a genuine conflict blocks the swap when the registry call
\* succeeds and the scan of the table holding the conflicting session succeeds;
\* the update is reached only when no successfully scanned table holds one,
\* and every 409 is caused by a genuine conflict and writes nothing.
C2_Amended ==
  SwapFetched =>
    /\ (h.pc = "update" => \A k \in GenuineConflicts(h) : k[1] \notin h.scanned)
    /\ (h.status = 409 => (h.hit \in GenuineConflicts(h) /\ h.writes = 0 /\ store = pre))

C2_Witness == SwapFetched /\ h.status = 409 /\ h.hit \in GenuineConflicts(h)

\* ---------------------------------------------------------------- C3
SpecBusy(r, candidate) ==
  \/ (r.mentor_id = candidate /\ r.swapped_mentor_id = NoMentor)
  \/ r.swapped_mentor_id = candidate

BusyRowsIn(t, f) ==
  {i \in 1..RowsIn(t) : /\ <<t, i>> # Self(f)
                        /\ AtSlotOf(store[<<t, i>>], f)
                        /\ SpecBusy(store[<<t, i>>], f.swappedMentorId)}

\* C3: a successfully read table makes the detector report a conflict exactly
\* when it holds a session at the slot, other than the edited one, with
\* (mentorId = candidate and swappedMentorId null) or swappedMentorId =
\* candidate; the edited session is never the reported conflict.
C3_BusyPredicate ==
  [][(h.kind = "swap" /\ h.pc = "scan" /\ h.ti \in h'.scanned)
       => /\ (h'.status = 409) <=> (BusyRowsIn(h.ti, h) # {})
          /\ (h'.status = 409) => (h'.hit[1] = h.ti /\ h'.hit[2] \in BusyRowsIn(h.ti, h)
                                    /\ h'.hit # Self(h))]_vars

C3_Witness ==
  /\ SwapFetched /\ h.pc = "update" /\ h.scanned = Tables
  /\ \E k \in SessionKeys : /\ k # Self(h) /\ AtSlotOf(pre[k], h)
                            /\ pre[k].mentor_id = h.swappedMentorId
                            /\ pre[k].swapped_mentor_id \notin {NoMentor, h.swappedMentorId}
  /\ SpecBusy(pre[Self(h)], h.swappedMentorId)

\* ---------------------------------------------------------------- C4
SwappedAwayFrom(k, m) ==
  pre[k].mentor_id = m /\ pre[k].swapped_mentor_id \notin {NoMentor, m}

\* sessions at the slot whose swap was removed and whose original mentor is the candidate
RestoredFor(f) ==
  {k \in restored : /\ k # Self(f)
                    /\ AtSlotOf(pre[k], f)
                    /\ pre[k].mentor_id = f.swappedMentorId
                    /\ pre[k].swapped_mentor_id = NoMentor}

C4_WhileSwappedAway ==
  (SwapFetched /\ h.status = 409) => ~SwappedAwayFrom(h.hit, h.swappedMentorId)

\* C4 as stated: after the removal the request is rejected because of S.
C4_Original ==
  /\ C4_WhileSwappedAway
  /\ (SwapFetched /\ h.pc \in {"update", "callSU", "awaitSU", "done"})
       => \A k \in RestoredFor(h) : (h.status = 409 /\ h.hit = k)

\* C4 amended: while M is swapped away from S no rejection names S; after the
\* swap on S is removed, a swap of M into another session at the slot reaches
\* the update only if the registry call or the scan of S's table failed, and
\* when S's table was read the rejection names S or a conflicting session met
\* earlier in the scan.
C4_Amended ==
  /\ C4_WhileSwappedAway
  /\ SwapFetched =>
       \A k \in RestoredFor(h) :
         /\ (h.pc = "update" => k[1] \notin h.scanned)
         /\ (h.status = 409 /\ k[1] \in h.scanned) => (h.hit = k \/ Before(h.hit, k))
         /\ (h.status = 409) => h.hit \in GenuineConflicts(h)

C4_Witness == SwapFetched /\ h.status = 409 /\ h.hit \in RestoredFor(h)

\* ---------------------------------------------------------------- C5
SpecConflicts(f) ==
  {k \in SessionKeys : /\ k # Self(f)
                       /\ AtSlotOf(pre[k], f)
                       /\ SpecBusy(pre[k], f.swappedMentorId)}

\* C5: a rejection reports exactly one conflict, the first one met in table
\* enumeration order then row order, with its table name, cohort label and
\* subject name, and no table after it is scanned.
C5_ShortCircuit ==
  (SwapFetched /\ h.status = 409) =>
    /\ Len(h.conflictDetails) = 1
    /\ h.hit \in SpecConflicts(h)
    /\ \A k \in SpecConflicts(h) : k[1] \in h.scanned => ~Before(k, h.hit)
    /\ h.conflictDetails[1].tableName = TableName(h.hit[1])
    /\ h.conflictDetails[1].batchName = batchName(h.hit[1])
    /\ h.conflictDetails[1].subjectName =
         (IF pre[h.hit].subject_name = "none" THEN "Session" ELSE pre[h.hit].subject_name)
    /\ h.ti = h.hit[1]
    /\ \A t \in h.scanned : t <= h.hit[1]

C5_Witness ==
  /\ SwapFetched /\ h.status = 409
  /\ \E k \in SpecConflicts(h) : k[1] > h.hit[1]
  /\ h.hit[1] # h.tableName \/ Cardinality(SpecConflicts(h)) >= 2

\* ---------------------------------------------------------------- C6
FlagsOf(r) == <<r.email_sent, r.whatsapp_sent>>

Announced(r) == r.email_sent = TRUE \/ r.whatsapp_sent = TRUE

\* C6: after a successfully completed reschedule, swap to a mentor or swap
\* removal on a session whose emailSent or whatsappSent was true before the
\* change, both flags are false.
C6_FlagReset ==
  (h.kind \in {"swap", "reschedule"} /\ h.pc = "done" /\ h.status = 200
     /\ Announced(pre[Self(h)]))
    => FlagsOf(store[Self(h)]) = <<FALSE, FALSE>>

\* ---------------------------------------------------------------- C7
RunKey == <<su.tableName, su.sessionId>>

C7_FlagsHeldUntilReset ==
  /\ (su.pc \in {"token", "delete", "clear", "create", "persist", "dispatch", "reset"})
       => (~su.resetIssued /\ FlagsOf(store[RunKey]) = FlagsOf(su.session))
  /\ su.resetIssued
       => (su.pc = "returned" /\ (shouldSendNotifications(su.session, su) => su.dispatchDone))
  /\ (h.pc = "crashed" /\ h.at = "dispatch")
       => FlagsOf(store[Self(h)]) = FlagsOf(pre[Self(h)])

C7_FlagsWrittenOnlyAtReset ==
  [][\A k \in SessionKeys :
       FlagsOf(store'[k]) # FlagsOf(store[k])
         => (su.pc = "reset" /\ k = RunKey
               /\ (shouldSendNotifications(su.session, su) => su.dispatchDone))]_vars

\* C7: in every run of session-update the write that resets the two flags is
\* issued only after notification dispatch has returned, never before or during
\* it; a run that stops during dispatch leaves the flags as they were.
C7_ResetAfterDispatch == []C7_FlagsHeldUntilReset /\ C7_FlagsWrittenOnlyAtReset

C7_Witness ==
  /\ su.pc = "returned" /\ su.resetIssued /\ su.dispatchDone
  /\ Announced(su.session)
  /\ FlagsOf(store[RunKey]) = <<FALSE, FALSE>>

\* ---------------------------------------------------------------- C8
\* C8: after any orchestrated change completes on a session whose type is
\* contest (as stored, or as the change sets it), the stored meeting link is
\* null.
C8_ContestNoLink ==
  (h.pc = "done" /\ h.status = 200 /\ HasRow(h.tableName, h.sessionId)
     /\ (store[Self(h)].session_type = "contest"
           \/ (h.kind = "direct" /\ su.newSessionType = "contest")))
    => store[Self(h)].teams_meeting_link = NoLink

\* ---------------------------------------------------------------- C9
InCalls(c) == \E i \in 1..Len(su.calls) : su.calls[i] = c

\* C9: a session-update run with newSessionType = contest on a session holding
\* a meeting link attempts the deletion, stores a null link and creates no
\* meeting; no run with stored or new type contest creates a meeting.
C9_ContestClearsLink ==
  /\ (su.pc = "returned" /\ su.status = 200 /\ su.newSessionType = "contest"
        /\ su.session.teams_meeting_link # NoLink)
       => (InCalls("delete") /\ store[RunKey].teams_meeting_link = NoLink)
  /\ (su.session # NoRow /\ isContest(su.session, su)) => ~InCalls("create")

\* ---------------------------------------------------------------- C10
C10_Order ==
  su.branch = "regen" =>
    /\ (su.pc = "create" => su.calls = <<"delete">>)
    /\ (InCalls("create") => SubSeq(su.calls, 1, 2) = <<"delete", "create">>)
    /\ (su.meetingCreated => (su.pc = "persist" \/ su.calls = <<"delete", "create", "persist">>))

C10_FailedDeleteGoesOn ==
  [][(su.branch = "regen" /\ su.pc = "delete" /\ su'.pc # "idle")
       => (su'.pc = "create" /\ su'.calls = <<"delete">>)]_vars

C10_CreatedIsPersisted ==
  [][(su.branch = "regen" /\ su.pc = "create" /\ su'.meetingCreated)
       => su'.pc = "persist"]_vars

\* C10: when session-update regenerates a meeting, the deletion attempt for
\* the old link precedes the creation call, and a deletion that fails or
\* matches no calendar entry is followed by the creation and by the write of
\* the new link.
C10_DeleteBeforeCreate == []C10_Order /\ C10_FailedDeleteGoesOn /\ C10_CreatedIsPersisted

C10_Witness ==
  /\ su.branch = "regen" /\ su.pc = "returned"
  /\ ~su.meetingDeleted /\ su.meetingCreated
  /\ su.calls = <<"delete", "create", "persist">>
  /\ store[RunKey].teams_meeting_link = su.newMeetingLink

\* ---------------------------------------------------------------- C11
MeetingOver == su.pc \in {"dispatch", "reset", "returned"}

TokenFailed == su.branch # "none" /\ MeetingOver /\ su.calls = <<>>

DeleteFailed == InCalls("delete") /\ ~su.meetingDeleted

CreateFailed == InCalls("create") /\ ~su.meetingCreated

LinkUnchanged == store[RunKey].teams_meeting_link = su.session.teams_meeting_link

\* C11 as stated: after a failed token acquisition, deletion or creation the
\* run returns success with the stored meeting link unchanged.
C11_Original ==
  (su.pc = "returned" /\ (TokenFailed \/ DeleteFailed \/ CreateFailed))
    => (su.status = 200 /\ LinkUnchanged)

C11_NeverAborts ==
  /\ (su.pc = "returned" /\ su.session # NoRow)
       => /\ su.status = 200
          /\ shouldSendNotifications(su.session, su) => su.dispatchDone
          /\ Announced(su.session) => su.resetIssued
  /\ (MeetingOver /\ (TokenFailed \/ CreateFailed)) => LinkUnchanged

C11_FailureSkipsToGate ==
  [][(su.pc \in {"token", "create"} /\ su'.pc \notin {"delete", "create", "persist", "idle"})
       => (su'.pc = AfterMeeting(su) /\ store' = store)]_vars

\* C11 amended: no failure of token acquisition, deletion or creation aborts
\* session-update; the gate and the flag reset are still evaluated and the run
\* returns success. A failed token acquisition or creation leaves the stored
\* link unchanged; a failed deletion is followed by the creation or the
\* clearing, which may change it.
C11_Amended == []C11_NeverAborts /\ C11_FailureSkipsToGate

C11_Witness ==
  /\ su.pc = "returned" /\ su.status = 200 /\ TokenFailed
  /\ su.dispatchDone /\ su.resetIssued /\ LinkUnchanged
  /\ su.session.teams_meeting_link # NoLink

\* ---------------------------------------------------------------- C12
\* the four rules, in priority order
RuleAction(storedContest, newContest, hasLink, suppressed, isNew) ==
  IF storedContest \/ newContest
  THEN (IF newContest /\ hasLink THEN "delete_clear" ELSE "nothing")
  ELSE IF hasLink /\ ~suppressed THEN "delete_create"
  ELSE IF isNew /\ ~hasLink THEN "create"
  ELSE "nothing"

ExpectedAction ==
  RuleAction(su.session.session_type = "contest", su.newSessionType = "contest",
             su.session.teams_meeting_link # NoLink, su.skipMeetingRegeneration,
             su.isNewSession)

C12_ActionTaken ==
  (su.session # NoRow /\ MeetingOver) =>
    CASE ExpectedAction = "nothing" ->
           su.calls = <<>> /\ LinkUnchanged /\ ~su.meetingLinkCleared
      [] ExpectedAction = "delete_clear" ->
           \/ su.calls = <<>> /\ LinkUnchanged
           \/ su.calls = <<"delete">> /\ su.meetingLinkCleared
      [] ExpectedAction = "delete_create" ->
           \/ su.calls = <<>> /\ LinkUnchanged
           \/ su.calls = <<"delete", "create">> /\ ~su.meetingCreated /\ LinkUnchanged
           \/ su.calls = <<"delete", "create", "persist">> /\ su.meetingCreated
      [] ExpectedAction = "create" ->
           \/ su.calls = <<>> /\ LinkUnchanged
           \/ su.calls = <<"create">> /\ ~su.meetingCreated /\ LinkUnchanged
           \/ su.calls = <<"create", "persist">> /\ su.meetingCreated

C12_FirstStep ==
  [][(su.pc = "fetch" /\ su'.session # NoRow)
       => su'.pc = (IF ExpectedAction' = "nothing" THEN AfterMeeting(su') ELSE "token")]_vars

C12_AfterToken ==
  [][(su.pc = "token" /\ su'.pc \in {"delete", "create"})
       => su'.pc = (IF ExpectedAction = "create" THEN "create" ELSE "delete")]_vars

\* C12: for every combination of stored type, new type, link present,
\* regeneration suppressed and is-new-session, the provider calls and link
\* writes of a session-update run are those of the action the four rules give
\* (cut short only where a provider call fails).
C12_FourRules == []C12_ActionTaken /\ C12_FirstStep /\ C12_AfterToken

C12_Witness ==
  /\ su.pc = "returned" /\ su.isNewSession
  /\ su.session.teams_meeting_link # NoLink
  /\ ExpectedAction = "delete_create"
  /\ su.calls = <<"delete", "create", "persist">>
  /\ store[RunKey].teams_meeting_link = su.newMeetingLink

\* ---------------------------------------------------------------- C13
C13_Order ==
  /\ su.notices # {} => MeetingOver
  /\ su.pc \in {"fetch", "token", "delete", "clear", "create", "persist"}
       => (su.notices = {} /\ ~su.dispatchDone /\ ~su.resetIssued)
  /\ su.pc = "dispatch" => ~su.resetIssued
  /\ \A n \in su.notices :
       n.link # NoLink => (su.meetingCreated /\ n.link = su.newMeetingLink)

C13_SameRun == su.pc \notin {"idle", "returned"} /\ su'.pc # "idle"

C13_Steps ==
  [][/\ (su'.notices # su.notices /\ C13_SameRun)
          => (su.pc = "dispatch" /\ su'.calls = su.calls /\ store' = store
                /\ calendar' = calendar)
     /\ (su'.calls # su.calls /\ C13_SameRun) => su.notices = {}
     /\ (su'.resetIssued /\ ~su.resetIssued)
          => (su.pc = "reset" /\ su'.notices = su.notices /\ su'.pc = "returned")]_vars

\* C13: in every run of session-update no notification is sent before the
\* meeting steps are over, the flag reset comes after the dispatch, and every
\* notification that carries a meeting link carries the link created in this
\* run.
C13_StepOrder == []C13_Order /\ C13_Steps

C13_Witness ==
  /\ su.pc = "returned" /\ su.resetIssued /\ su.dispatchDone
  /\ su.meetingCreated /\ su.newMeetingLink # NoLink
  /\ \E n \in su.notices : n.role = "student" /\ n.link = su.newMeetingLink
  /\ \E n \in su.notices : n.role = "supermentor"

\* ---------------------------------------------------------------- C14
C14_Swap == su.changedField = "swapped_mentor_id"
C14_Announced == su.session.email_sent = TRUE \/ su.session.whatsapp_sent = TRUE
C14_Fetched == su.pc \in {"token", "delete", "clear", "create", "persist",
                          "dispatch", "reset"} \/ (su.pc = "returned" /\ su.status = 200)

C14_Iff ==
  C14_Fetched =>
    /\ (su.pc = "dispatch" \/ su.dispatchDone \/ su.notices # {})
         => (C14_Swap \/ C14_Announced)
    /\ (su.pc \in {"reset", "returned"} /\ (C14_Swap \/ C14_Announced))
         => su.dispatchDone
    /\ (~C14_Swap /\ ~C14_Announced) => su.notices = {}

\* C14: session-update dispatches notifications exactly when the change is a
\* swap or one of the fetched flags email_sent / whatsapp_sent is true; a
\* non-swap update of a session with both flags false sends nothing to anyone.
C14_Gate == []C14_Iff

C14_Witness ==
  /\ su.pc = "returned" /\ su.status = 200
  /\ ~C14_Swap /\ ~C14_Announced
  /\ su.meetingCreated
  /\ su.notices = {} /\ ~su.dispatchDone

C14_WitnessOpen ==
  /\ su.pc = "returned" /\ su.status = 200
  /\ ~C14_Swap /\ C14_Announced /\ su.dispatchDone
  /\ \E n \in su.notices : n.role = "student"

\* ---------------------------------------------------------------- C15
C15_Notified(id, variant) ==
  \E n \in su.notices : n.role = "mentor" /\ n.id = id /\ n.variant = variant

C15_StudentsNotified == \E n \in su.notices : n.role = "student"

\* C15: in a swap run on a session whose email_sent and whatsapp_sent are both
\* false the original mentor and the new covering mentor are notified, no
\* student receives anything and both flags stay false; students hear of a
\* swap only when the session had been announced.
C15_SilentSwap ==
  (C14_Swap /\ C14_Fetched /\ ~C14_Announced) =>
    /\ ~C15_StudentsNotified
    /\ FlagsOf(store[RunKey]) = <<FALSE, FALSE>>
    /\ (su.phase = Len(Audiences) /\ su.newMentorId # NoMentor)
         => /\ C15_Notified(su.session.mentor_id, "covered")
            /\ C15_Notified(su.newMentorId, "coverage_assigned")

\* ---------------------------------------------------------------- C16
C16_Case ==
  /\ su.changedField = "mentor_id" /\ C14_Fetched /\ C14_Announced
  /\ su.phase = Len(Audiences)

C16_MentorsAndAdmins ==
  /\ C15_Notified(su.oldMentorId, "removed")
  /\ C15_Notified(su.newMentorId, "assigned")
  /\ \E n \in su.notices : n.role = "supermentor"

\* C16: when changedField is mentor_id and the gate is passed, the old mentor
\* is sent "removed", the new mentor "assigned", every admin is notified, and
\* the students are notified only if the change comes with a reschedule (a
\* run has one changedField, so here: not at all).
C16_MentorChange ==
  C16_Case => (C16_MentorsAndAdmins /\ ~C15_StudentsNotified)

\* ---------------------------------------------------------------- C17
C17_RemovalDone ==
  /\ h.kind = "swap" /\ h.pc = "done" /\ h.status = 200
  /\ h.swappedMentorId = NoMentor
  /\ pre[Self(h)].swapped_mentor_id # NoMentor

\* C17: when a swap removal on a session that had a covering mentor has
\* completed, the original mentor has been sent "restored", the previous
\* covering mentor "coverage removed", and the admins have been notified.
C17_RemovalNotified ==
  C17_RemovalDone =>
    /\ C15_Notified(pre[Self(h)].mentor_id, "restored")
    /\ C15_Notified(pre[Self(h)].swapped_mentor_id, "coverage_removed")
    /\ \E n \in su.notices : n.role = "supermentor"

\* ---------------------------------------------------------------- C18
C18_SwapRun ==
  /\ h.kind = "swap" /\ h.pc = "awaitSU"
  /\ su.changedField = "swapped_mentor_id" /\ C14_Fetched

C18_Removed == {n.id : n \in {x \in su.notices : x.variant = "coverage_removed"}}

\* C18: "coverage removed" goes to the mentor who was covering before the
\* change and to nobody else; when the session had no covering mentor before
\* the change, nobody (in particular not the original mentor) is sent it.
C18_OnlyPreviousCover ==
  C18_SwapRun =>
    C18_Removed \subseteq ({pre[Self(h)].swapped_mentor_id} \ {NoMentor})

\* ---------------------------------------------------------------- C19
C19_SameCover ==
  /\ C18_SwapRun
  /\ pre[Self(h)].swapped_mentor_id # NoMentor
  /\ pre[Self(h)].swapped_mentor_id = h.swappedMentorId

C20_Audiences ==
  /\ \E n \in su.notices : n.role = "student" /\ n.channel = "email"
  /\ \E n \in su.notices : n.role = "student" /\ n.channel = "whatsapp"
  /\ \E n \in su.notices : n.role = "mentor" /\ n.id = EffectiveMentor(store[RunKey])
  /\ \A n \in su.notices : n.role = "mentor" => n.id = EffectiveMentor(store[RunKey])
  /\ \E n \in su.notices : n.role = "supermentor"

C20_Done ==
  /\ h.pc = "done" /\ h.status = 200
  /\ \/ h.kind = "reschedule"
     \/ h.kind = "direct" /\ su.changedField = "subject_name" /\ ~su.skipMeetingRegeneration
  /\ Announced(pre[Self(h)])

C20_Run ==
  /\ su.pc = "returned" /\ su.status = 200
  /\ su.changedField \in {"date", "subject_name"}
  /\ C14_Announced

C20_Regenerable ==
  /\ su.session.teams_meeting_link # NoLink
  /\ su.session.session_type # "contest"
  /\ ~su.skipMeetingRegeneration

C21_SameMessage(a, b) ==
  /\ a.role = b.role /\ a.id = b.id
  /\ a.variant = b.variant /\ a.channel = b.channel

C22_Case ==
  /\ su.pc \in {"reset", "returned"} /\ su.dispatchDone
  /\ ~Matches(TableName(su.tableName))

\* C22: when the table name does not parse, the dispatch skips the students
\* but still sends the mentor and administrator notices of the change.
C22_MentorsStillNotified ==
  C22_Case =>
    /\ ~(\E n \in su.notices : n.role = "student")
    /\ \E n \in su.notices : n.role = "mentor"
    /\ \E n \in su.notices : n.role = "supermentor"

\* ---------------------------------------------------------------- C24
C24_Rejected == h.pc = "done" /\ h.status \in {400, 404}

C24_RunRejected == su.pc = "returned" /\ su.status \in {400, 404}

C24_Untouched ==
  /\ C24_Rejected
       => /\ h.writes = 0
          /\ su.calls = <<>> /\ su.sent = <<>> /\ ~su.resetIssued
          /\ h.kind \in {"swap", "reschedule", "legacy"} => (store = pre /\ su = IdleSU)
  /\ C24_RunRejected
       => /\ su.calls = <<>> /\ su.sent = <<>>
          /\ ~su.resetIssued /\ ~su.meetingLinkCleared /\ ~su.dispatchDone
          /\ su.newMeetingLink = NoLink

C24_RejectedStepsAreSilent ==
  [][/\ (h'.pc = "done" /\ h'.status \in {400, 404} /\ h.pc # "done")
          => (store' = store /\ calendar' = calendar)
     /\ (su'.pc = "returned" /\ su'.status \in {400, 404} /\ su.pc = "fetch")
          => (store' = store /\ calendar' = calendar)]_vars

\* C24: a reschedule, swap or session-update request that lacks a required
\* identifier or whose session id matches no row is answered 400 or 404
\* without any store write, meeting-provider call or notification send.
C24_NoSideEffects == []C24_Untouched /\ C24_RejectedStepsAreSilent

C24_Witness ==
  /\ h.kind = "reschedule" /\ C24_Rejected /\ h.status = 404
  /\ ~HasRow(h.tableName, h.sessionId)
  /\ nreq = MaxRequests /\ store = pre
  /\ \E k \in SessionKeys : store[k].swapped_mentor_id # NoMentor

\* ---------------------------------------------------------------- C25
C25_Persisted ==
  /\ h.writes >= 1
  /\ h.kind \in {"swap", "legacy"}
       => store[Self(h)].swapped_mentor_id = h.swappedMentorId
  /\ h.kind = "reschedule"
       => /\ store[Self(h)].date = h.newDate
          /\ h.newTime # NoValue => store[Self(h)].time = h.newTime

C25_Downstream ==
  \/ h.pc \in {"callSU", "awaitSU", "notify"}
  \/ h.pc = "done" /\ h.status = 200

C25_Handlers == {"swap", "reschedule", "legacy"}

C25_StoredFirst ==
  (h.kind \in C25_Handlers /\ C25_Downstream) => C25_Persisted

C25_CallsAfterStore ==
  [][/\ (h.kind \in C25_Handlers /\ h'.kind = h.kind
           /\ (calendar' # calendar \/ su'.calls # su.calls \/ su'.sent # su.sent))
          => C25_Persisted
     /\ h'.pc = "crashed" => store' = store]_vars

\* C25: in the reschedule and swap handlers the changed session field is
\* stored before any meeting-provider call and before any notification send,
\* and a run that stops later leaves the stored values in place.
C25_PersistFirst == []C25_StoredFirst /\ C25_CallsAfterStore

C25_ModernHandlers ==
  [][(h.kind \in {"swap", "reschedule"} /\ h'.kind = h.kind
        /\ (calendar' # calendar \/ su'.calls # su.calls \/ su'.sent # su.sent))
       => C25_Persisted]_vars

\* ---------------------------------------------------------------- C26
C26_AfterUpdate == h.kind \in {"swap", "reschedule"} /\ h.pc \in {"callSU", "awaitSU"}

\* C26: once the session field update has succeeded the reschedule and swap
\* requests answer success, whatever the session-update call, the meeting
\* steps or the sends do.
C26_SuccessAfterUpdate ==
  [][(C26_AfterUpdate /\ h'.pc = "done") => h'.status = 200]_vars

C26_AnsweredCall ==
  [][(C26_AfterUpdate /\ h.pc = "awaitSU" /\ h'.pc = "done") => h'.status = 200]_vars

\* ---------------------------------------------------------------- C27
C27_Started == su # IdleSU \/ h.pc \in {"callSU", "awaitSU"}

C27_Mandatory ==
  h.kind \in {"swap", "reschedule"} =>
    /\ (C27_Started \/ (h.pc = "done" /\ h.status = 200))
         => (h.session # NoRow /\ C25_Persisted)
    /\ (h.pc = "done" /\ h.status \in {404, 500} /\ su = IdleSU /\ h.writes = 0)
         => store = pre

C27_FailureStops ==
  [][(h.kind \in {"swap", "reschedule"} /\ h.pc \in {"fetch", "update"}
        /\ h'.pc = "done" /\ h'.status # 200)
       => /\ h'.status = (IF h.pc = "fetch" THEN 404 ELSE 500)
          /\ su' = IdleSU /\ store' = store /\ calendar' = calendar]_vars

\* C27: when the session fetch or the session field update fails in the
\* reschedule or swap handler the request answers an error, and no meeting
\* regeneration, notification or flag reset is started; whatever has been
\* started had both steps succeed.
C27_MandatorySteps == []C27_Mandatory /\ C27_FailureStops

C27_Witness ==
  /\ h.kind = "reschedule" /\ h.pc = "done" /\ h.status = 500
  /\ h.writes = 1 /\ h.session # NoRow /\ su = IdleSU /\ store = pre
  /\ h.newDate # store[Self(h)].date
  /\ Announced(store[Self(h)]) /\ store[Self(h)].teams_meeting_link # NoLink

\* ======================================================== helpers on their own
\* the handlers at rest while a helper is evaluated
Quiet ==
  /\ store = [k \in SessionKeys |-> InitialRow(k, "normal", NoLink, FALSE, FALSE, NoMentor)]
  /\ calendar = {}
  /\ nreq = 0
  /\ pre = store
  /\ restored = {}
  /\ h = IdleH
  /\ su = IdleSU

\* ------------------------------------------- meeting window of session-update
MaxDay == 2
MinutesPerDay == 1440
SessionMinutes == 90

\* `${effectiveDate}T${effectiveTime}:00`, as minutes since day 0
startDateTime(effectiveDate, effectiveTime) == effectiveDate * MinutesPerDay + effectiveTime

\* startDate.setMinutes(startDate.getMinutes() + 90), then
\* `${effectiveDate}T${startDate.toTimeString().slice(0, 8)}`: the date of the
\* start with the time of day of the moved instant
endDateTime(effectiveDate, effectiveTime) ==
  LET startDate == startDateTime(effectiveDate, effectiveTime) + SessionMinutes
  IN effectiveDate * MinutesPerDay + (startDate % MinutesPerDay)

InitWindow ==
  /\ Quiet
  /\ \E d \in 1..MaxDay, t \in 0..(MinutesPerDay - 1), b \in {"regen", "new"} :
       fn = [op |-> "window", pc |-> "called", branch |-> b, date |-> d, time |-> t,
             start |-> 0, end |-> 0]

\* the times handed to createTeamsMeeting() by either branch
MeetingTimes ==
  /\ fn.op = "window" /\ fn.pc = "called"
  /\ fn' = [fn EXCEPT !.pc = "returned",
                      !.start = startDateTime(fn.date, fn.time),
                      !.end = endDateTime(fn.date, fn.time)]
  /\ UNCHANGED handlerVars

NextWindow == MeetingTimes

SpecWindow == InitWindow /\ [][NextWindow]_vars

\* ---------------------------------------------------------------- C28
\* C28: for every session date and start time of day the meeting created by
\* session-update starts at date+time and ends 90 minutes later, so the end
\* is later than the start.
C28_Window ==
  (fn.op = "window" /\ fn.pc = "returned") =>
    /\ fn.start = fn.date * 1440 + fn.time
    /\ fn.end = fn.start + 90
    /\ fn.end > fn.start

C28_Daytime ==
  (fn.op = "window" /\ fn.pc = "returned" /\ fn.time < 1440 - 90) =>
    (fn.end = fn.start + 90)

\* ------------------------------------------------ phone numbers for WhatsApp
MaxPhoneDigits == 16
Digits == {"0", "1", "2", "3", "4", "5", "6", "7", "8", "9"}
\* null, undefined, "" and 0 are all falsy: `if (!phone) return null`
NoPhone == <<>>
CountryCode == <<"9", "1">>

IsDigit(c) == c \in Digits

\* String(phone).replace(/\D/g, '')
stripNonDigits(phone) == SelectSeq(phone, IsDigit)

startsWith(str, c) == Len(str) > 0 /\ str[1] = c

\* session-update/route.ts
formatPhoneForWhatsApp(phone) ==
  IF phone = NoPhone THEN NoPhone
  ELSE LET stripped == stripNonDigits(phone)
           phoneStr == IF Len(stripped) = 10 THEN CountryCode \o stripped ELSE stripped
       IN IF Len(phoneStr) >= 10 /\ Len(phoneStr) <= 15 THEN phoneStr ELSE NoPhone

\* the copy in the legacy swap route, mutated to the session-update rule
formatPhoneForWhatsAppLegacyMutNoTrunk(phone) == formatPhoneForWhatsApp(phone)

\* the copy in the legacy swap route
formatPhoneForWhatsAppLegacy(phone) ==
  IF phone = NoPhone THEN NoPhone
  ELSE LET stripped == stripNonDigits(phone)
           cleaned == IF Len(stripped) = 10 THEN CountryCode \o stripped
                      ELSE IF startsWith(stripped, "0") THEN CountryCode \o Tail(stripped)
                      ELSE IF startsWith(stripped, "+") THEN Tail(stripped)
                      ELSE stripped
       IN IF Len(cleaned) < 10 \/ Len(cleaned) > 15 THEN NoPhone ELSE cleaned

\* what is written in front of the subscriber digits
PhoneLeads ==
  LET Alphabet == {"+", "0", "9", "1", "-"}
  IN {<<>>} \cup {<<a>> : a \in Alphabet} \cup {<<a, b>> : a, b \in Alphabet}

Fives(n) == [i \in 1..n |-> "5"]

\* phone values as they stand in a mentor, student or supermentor row
PhoneInputs ==
  {lead \o Fives(n) : lead \in PhoneLeads, n \in 0..MaxPhoneDigits}
    \cup {lead \o Fives(n) \o <<" ">> \o Fives(2) : lead \in PhoneLeads, n \in 0..(MaxPhoneDigits - 2)}

InitPhone ==
  /\ Quiet
  /\ \E p \in PhoneInputs :
       fn = [op |-> "phone", pc |-> "called", impl |-> "none", phone |-> p, result |-> NoPhone]

FormatPhone ==
  /\ fn.op = "phone" /\ fn.pc = "called"
  /\ fn' = [fn EXCEPT !.pc = "returned", !.impl = "session-update",
                      !.result = formatPhoneForWhatsApp(fn.phone)]
  /\ UNCHANGED handlerVars

FormatPhoneLegacy ==
  /\ fn.op = "phone" /\ fn.pc = "called"
  /\ fn' = [fn EXCEPT !.pc = "returned", !.impl = "legacy",
                      !.result = formatPhoneForWhatsAppLegacy(fn.phone)]
  /\ UNCHANGED handlerVars

NextPhone == FormatPhone \/ FormatPhoneLegacy

SpecPhone == InitPhone /\ [][NextPhone]_vars

\* ---------------------------------------------------------------- C29
C29_DigitsOf(phone) == SelectSeq(phone, LAMBDA c : c \in Digits)

C29_Rule(d, result) ==
  /\ Len(d) = 10 => result = <<"9", "1">> \o d
  /\ Len(d) \in 11..15 => result = d
  /\ Len(d) \notin 10..15 => result = <<>>

\* C29: for every input, after stripping non-digits a 10-digit number is
\* returned prefixed with 91, a number of 11 to 15 digits is returned
\* unchanged, and an empty input or one whose length is outside 10..15 digits
\* yields null.
C29_Normalized ==
  (fn.op = "phone" /\ fn.pc = "returned") => C29_Rule(C29_DigitsOf(fn.phone), fn.result)

C29_Trunk(d) ==
  IF Len(d) = 10 THEN <<"9", "1">> \o d
  ELSE IF Len(d) > 0 /\ d[1] = "0" THEN <<"9", "1">> \o Tail(d)
  ELSE d

\* C29 (amended): session-update's helper follows the rule as stated; the
\* legacy swap route's copy also replaces a leading 0 of a number that does
\* not have 10 digits by 91 and applies the 10..15 length test to the
\* outcome of that replacement.
C29_Amended ==
  (fn.op = "phone" /\ fn.pc = "returned") =>
    LET d == C29_DigitsOf(fn.phone)
    IN /\ fn.impl = "session-update" => C29_Rule(d, fn.result)
       /\ fn.impl = "legacy" =>
            fn.result = (IF Len(C29_Trunk(d)) \in 10..15 THEN C29_Trunk(d) ELSE <<>>)

C29_Witness ==
  /\ fn.op = "phone" /\ fn.pc = "returned" /\ fn.impl = "legacy"
  /\ Len(C29_DigitsOf(fn.phone)) = 11
  /\ fn.phone[1] = "0"
  /\ Len(fn.result) = 12 /\ fn.result[1] = "9" /\ fn.result[3] = "5"

C29_WitnessModern ==
  /\ fn.op = "phone" /\ fn.pc = "returned" /\ fn.impl = "session-update"
  /\ Len(fn.phone) > 10 /\ Len(C29_DigitsOf(fn.phone)) = 10
  /\ Len(fn.result) = 12

\* ------------------------------------------------ session material link lists
MaxCalls == 3
MaxNewLinks == 2

\* str.split(','): the pieces between commas, "" gives [""]
RECURSIVE split(_)
split(str) ==
  IF \A i \in 1..Len(str) : str[i] # ","
    THEN <<str>>
    ELSE LET i == CHOOSE k \in 1..Len(str) :
                    str[k] = "," /\ \A j \in 1..(k - 1) : str[j] # ","
         IN <<SubSeq(str, 1, i - 1)>> \o split(SubSeq(str, i + 1, Len(str)))

\* link.trim()
RECURSIVE trim(_)
trim(link) ==
  IF link # <<>> /\ Head(link) = " " THEN trim(Tail(link))
  ELSE IF link # <<>> /\ link[Len(link)] = " " THEN trim(SubSeq(link, 1, Len(link) - 1))
  ELSE link

NonEmpty(link) == Len(link) > 0

\* materials.split(',').map(link => link.trim()).filter(link => link.length > 0)
parseLinks(materials) ==
  LET pieces == split(materials)
  IN SelectSeq([i \in 1..Len(pieces) |-> trim(pieces[i])], NonEmpty)

\* allLinks.join(', ')
RECURSIVE join(_)
join(allLinks) ==
  IF allLinks = <<>> THEN <<>>
  ELSE IF Len(allLinks) = 1 THEN allLinks[1]
  ELSE allLinks[1] \o <<",", " ">> \o join(Tail(allLinks))

includes(allLinks, link) == \E i \in 1..Len(allLinks) : allLinks[i] = link

\* POST: for (const newLink of newLinks) { trim; push unless empty or included }
RECURSIVE addNewLinks(_, _)
addNewLinks(allLinks, newLinks) ==
  IF newLinks = <<>> THEN allLinks
  ELSE LET trimmedLink == trim(Head(newLinks))
       IN addNewLinks(IF trimmedLink # <<>> /\ ~includes(allLinks, trimmedLink)
                        THEN Append(allLinks, trimmedLink)
                        ELSE allLinks,
                      Tail(newLinks))

\* GET: for (const link of sessionLinks) { push unless included }
RECURSIVE mergeLinks(_, _)
mergeLinks(allLinks, sessionLinks) ==
  IF sessionLinks = <<>> THEN allLinks
  ELSE mergeLinks(IF ~includes(allLinks, Head(sessionLinks))
                    THEN Append(allLinks, Head(sessionLinks))
                    ELSE allLinks,
                  Tail(sessionLinks))

\* PUT: links.filter(link => link !== linkToDelete)
without(links, linkToDelete) == SelectSeq(links, LAMBDA link : link # linkToDelete)

\* links a mentor pastes: plain, with a blank in front, with a comma inside
LinkInputs == {<<"a">>, <<" ", "b">>, <<"b", ",", "a">>}

NewLinksInputs ==
  UNION {[1..n -> LinkInputs] : n \in 1..MaxNewLinks}

\* initial_session_material as the schedule import leaves it
InitialMaterials == {<<>>, <<"a">>, <<"a", ",", " ", "b">>}

NoCall ==
  [kind |-> "none", status |-> 0, newLinks |-> <<>>, existingLinks |-> <<>>,
   initialLinks |-> <<>>, sessionLinks |-> <<>>, allLinks |-> <<>>, before |-> <<>>]

InitLinks ==
  /\ Quiet
  /\ \E m \in InitialMaterials :
       fn = [op |-> "links", initial_session_material |-> m, session_material |-> <<>>,
             ncalls |-> 0, call |-> NoCall, lastPosted |-> <<>>]

\* POST answered 400: no links in the request
MaterialPostBadInput ==
  /\ fn.op = "links" /\ fn.ncalls < MaxCalls
  /\ fn' = [fn EXCEPT !.ncalls = fn.ncalls + 1,
                      !.call = [NoCall EXCEPT !.kind = "POST", !.status = 400,
                                              !.before = fn.session_material]]
  /\ UNCHANGED handlerVars

\* POST answered 404 or 500: the fetch or the update failed
MaterialPostFailed ==
  /\ fn.op = "links" /\ fn.ncalls < MaxCalls
  /\ \E newLinks \in NewLinksInputs, status \in {404, 500} :
       LET existingLinks == parseLinks(fn.session_material)
       IN fn' = [fn EXCEPT !.ncalls = fn.ncalls + 1,
                           !.call = [NoCall EXCEPT
                                       !.kind = "POST", !.status = status,
                                       !.newLinks = newLinks,
                                       !.existingLinks = IF status = 500 THEN existingLinks ELSE <<>>,
                                       !.allLinks = IF status = 500
                                                      THEN addNewLinks(existingLinks, newLinks)
                                                      ELSE <<>>,
                                       !.before = fn.session_material]]
  /\ UNCHANGED handlerVars

\* POST answered 200; the request carries pasted links, or the links a GET
\* listed for the session, or the links of the request before
MaterialPost ==
  /\ fn.op = "links" /\ fn.ncalls < MaxCalls
  /\ \E newLinks \in NewLinksInputs \cup ({parseLinks(fn.session_material), fn.lastPosted} \ {<<>>}) :
       LET existingLinks == parseLinks(fn.session_material)
           allLinks == addNewLinks(existingLinks, newLinks)
           updatedMaterials == join(allLinks)
       IN fn' = [fn EXCEPT !.ncalls = fn.ncalls + 1,
                           !.session_material = updatedMaterials,
                           !.lastPosted = newLinks,
                           !.call = [NoCall EXCEPT
                                       !.kind = "POST", !.status = 200,
                                       !.newLinks = newLinks,
                                       !.existingLinks = existingLinks,
                                       !.allLinks = allLinks,
                                       !.before = fn.session_material]]
  /\ UNCHANGED handlerVars

MaterialGet ==
  /\ fn.op = "links" /\ fn.ncalls < MaxCalls
  /\ LET initialLinks == parseLinks(fn.initial_session_material)
         sessionLinks == parseLinks(fn.session_material)
     IN fn' = [fn EXCEPT !.ncalls = fn.ncalls + 1,
                         !.call = [NoCall EXCEPT
                                     !.kind = "GET", !.status = 200,
                                     !.initialLinks = initialLinks,
                                     !.sessionLinks = sessionLinks,
                                     !.allLinks = mergeLinks(initialLinks, sessionLinks),
                                     !.before = fn.session_material]]
  /\ UNCHANGED handlerVars

\* PUT that removes the link from every list that holds it
MaterialPutMutBoth ==
  /\ fn.op = "links" /\ fn.ncalls < MaxCalls
  /\ LET initialLinks == parseLinks(fn.initial_session_material)
         sessionLinks == parseLinks(fn.session_material)
     IN \E linkToDelete \in {initialLinks[i] : i \in 1..Len(initialLinks)}
                              \cup {sessionLinks[i] : i \in 1..Len(sessionLinks)} :
          fn' = [fn EXCEPT !.ncalls = fn.ncalls + 1,
                           !.initial_session_material = join(without(initialLinks, linkToDelete)),
                           !.session_material = join(without(sessionLinks, linkToDelete)),
                           !.lastPosted = <<>>,
                           !.call = [NoCall EXCEPT
                                       !.kind = "PUT", !.status = 200,
                                       !.newLinks = <<linkToDelete>>,
                                       !.initialLinks = initialLinks,
                                       !.sessionLinks = sessionLinks,
                                       !.before = fn.session_material]]
  /\ UNCHANGED handlerVars

\* PUT of a link some list holds: removed from the initial list if it is
\* there, else from the session list
MaterialPut ==
  /\ fn.op = "links" /\ fn.ncalls < MaxCalls
  /\ LET initialLinks == parseLinks(fn.initial_session_material)
         sessionLinks == parseLinks(fn.session_material)
     IN \E linkToDelete \in {initialLinks[i] : i \in 1..Len(initialLinks)}
                              \cup {sessionLinks[i] : i \in 1..Len(sessionLinks)} :
          fn' = [fn EXCEPT !.ncalls = fn.ncalls + 1,
                           !.initial_session_material =
                              IF includes(initialLinks, linkToDelete)
                                THEN join(without(initialLinks, linkToDelete))
                                ELSE fn.initial_session_material,
                           !.session_material =
                              IF includes(initialLinks, linkToDelete)
                                THEN fn.session_material
                                ELSE join(without(sessionLinks, linkToDelete)),
                           !.lastPosted = <<>>,
                           !.call = [NoCall EXCEPT
                                       !.kind = "PUT", !.status = 200,
                                       !.newLinks = <<linkToDelete>>,
                                       !.initialLinks = initialLinks,
                                       !.sessionLinks = sessionLinks,
                                       !.before = fn.session_material]]
  /\ UNCHANGED handlerVars

\* PUT of a link no list holds
MaterialPutNotFound ==
  /\ fn.op = "links" /\ fn.ncalls < MaxCalls
  /\ \E linkToDelete \in LinkInputs :
       /\ ~includes(parseLinks(fn.initial_session_material), linkToDelete)
       /\ ~includes(parseLinks(fn.session_material), linkToDelete)
       /\ fn' = [fn EXCEPT !.ncalls = fn.ncalls + 1,
                           !.call = [NoCall EXCEPT
                                       !.kind = "PUT", !.status = 404,
                                       !.newLinks = <<linkToDelete>>,
                                       !.before = fn.session_material]]
  /\ UNCHANGED handlerVars

NextLinks ==
  \/ MaterialPostBadInput
  \/ MaterialPostFailed
  \/ MaterialPost
  \/ MaterialGet
  \/ MaterialPut
  \/ MaterialPutNotFound

SpecLinks == InitLinks /\ [][NextLinks]_vars

\* ---------------------------------------------------------------- C30
RECURSIVE C30_Dedupe(_)
C30_Dedupe(L) ==
  IF L = <<>> THEN <<>>
  ELSE LET front == C30_Dedupe(SubSeq(L, 1, Len(L) - 1))
       IN IF \E i \in 1..Len(front) : front[i] = L[Len(L)] THEN front
          ELSE Append(front, L[Len(L)])

C30_Posted == fn.op = "links" /\ fn.call.kind = "POST" /\ fn.call.status = 200

\* POST of L's links onto a session whose session_material is L
C30_PostSelf ==
  (C30_Posted /\ fn.call.newLinks = fn.call.existingLinks) =>
    /\ fn.call.allLinks = C30_Dedupe(fn.call.existingLinks)
    /\ parseLinks(fn.session_material) = C30_Dedupe(fn.call.existingLinks)

\* GET when the initial and the session list are both L
C30_GetSelf ==
  (fn.op = "links" /\ fn.call.kind = "GET" /\ fn.call.initialLinks = fn.call.sessionLinks) =>
    fn.call.allLinks = C30_Dedupe(fn.call.initialLinks)

\* the second of two successive POSTs of the same new links stores what the
\* first one stored
C30_PostTwice ==
  (fn.op = "links" /\ fn'.ncalls # fn.ncalls
     /\ fn'.call.kind = "POST" /\ fn'.call.status = 200
     /\ fn'.call.newLinks = fn.lastPosted) =>
    fn'.session_material = fn.session_material

\* C30: merging a stored link list L with itself, by POST of L's links onto L
\* or by the GET merge of two lists equal to L, yields dedupe(L) (no link
\* twice, first-occurrence order kept), and adding the same new links twice
\* stores the same list as adding them once.
C30_Idempotent ==
  /\ [](C30_PostSelf /\ C30_GetSelf)
  /\ [][C30_PostTwice]_vars

C30_MergeSelf == C30_PostSelf /\ C30_GetSelf

C30_AddTwice == [][C30_PostTwice]_vars

\* ------------------------------------- the send loop of sendUpdateNotifications
MaxStudents == 2
MaxSupermentors == 1

\* a row's address fields: an email or none, a phone that formats or one that does not
RecipientLists(role, max) ==
  UNION {[1..n -> [role : {role}, email : BOOLEAN, phone : {Fives(10), Fives(9)}]] : n \in 0..max}

\* students, then the current mentor, then the supermentors
BatchInputs ==
  {st \o mt \o sm : st \in RecipientLists("student", MaxStudents),
                    mt \in RecipientLists("mentor", 1),
                    sm \in RecipientLists("supermentor", MaxSupermentors)}

EmptyResult ==
  [studentsSent |-> 0, mentorSent |-> FALSE, supermentorsSent |-> 0,
   whatsappSent |-> [students |-> 0, mentor |-> FALSE, supermentors |-> 0]]

SendOutcomes == {"success", "failure", "throw"}

\* `if (email)`, `if (phone)`; the mentor's WhatsApp send sits inside the
\* test of the mentor's email address
HasChannel(recipient, channel) ==
  IF channel = "email" THEN recipient.email
  ELSE /\ formatPhoneForWhatsApp(recipient.phone) # NoPhone
       /\ recipient.role = "mentor" => recipient.email

\* the counter update after a send, ignoring outcomes
recordSendMutNoTest(result, role, channel, outcome) ==
  IF outcome = "throw" THEN result
  ELSE IF role = "student" /\ channel = "email"
    THEN [result EXCEPT !.studentsSent = @ + 1]
  ELSE IF role = "student"
    THEN [result EXCEPT !.whatsappSent.students = @ + 1]
  ELSE IF role = "supermentor" /\ channel = "email"
    THEN [result EXCEPT !.supermentorsSent = @ + 1]
  ELSE IF role = "supermentor"
    THEN [result EXCEPT !.whatsappSent.supermentors = @ + 1]
  ELSE IF channel = "email"
    THEN [result EXCEPT !.mentorSent = TRUE]
  ELSE [result EXCEPT !.whatsappSent.mentor = TRUE]

\* `if (success) result.<counter>++`, `result.mentorSent = success`; a throw
\* lands in the send's own catch and leaves the result as it is
recordSend(result, role, channel, outcome) ==
  IF outcome = "throw" THEN result
  ELSE IF role = "student" /\ channel = "email"
    THEN [result EXCEPT !.studentsSent = IF outcome = "success" THEN @ + 1 ELSE @]
  ELSE IF role = "student"
    THEN [result EXCEPT !.whatsappSent.students = IF outcome = "success" THEN @ + 1 ELSE @]
  ELSE IF role = "supermentor" /\ channel = "email"
    THEN [result EXCEPT !.supermentorsSent = IF outcome = "success" THEN @ + 1 ELSE @]
  ELSE IF role = "supermentor"
    THEN [result EXCEPT !.whatsappSent.supermentors = IF outcome = "success" THEN @ + 1 ELSE @]
  ELSE IF channel = "email"
    THEN [result EXCEPT !.mentorSent = (outcome = "success")]
  ELSE [result EXCEPT !.whatsappSent.mentor = (outcome = "success")]

InitBatch ==
  /\ Quiet
  /\ \E recipients \in BatchInputs :
       fn = [op |-> "batch", pc |-> "sending", recipients |-> recipients,
             i |-> 1, channel |-> "email", log |-> <<>>, result |-> EmptyResult]

\* where the loop stands after the send, or the skipped send, at (i, channel)
Advance(f) ==
  IF f.channel = "email" THEN [f EXCEPT !.channel = "whatsapp"]
  ELSE [f EXCEPT !.i = f.i + 1, !.channel = "email"]

\* the send loop with a throw that leaves the loops
BatchSendMutAbort ==
  /\ fn.op = "batch" /\ fn.pc = "sending" /\ fn.i <= Len(fn.recipients)
  /\ HasChannel(fn.recipients[fn.i], fn.channel)
  /\ \E outcome \in SendOutcomes :
       LET sent == [fn EXCEPT
                      !.log = Append(fn.log, [i |-> fn.i, channel |-> fn.channel, outcome |-> outcome]),
                      !.result = recordSend(fn.result, fn.recipients[fn.i].role, fn.channel, outcome)]
       IN fn' = IF outcome = "throw"
                  THEN [sent EXCEPT !.i = Len(fn.recipients) + 1, !.channel = "email"]
                  ELSE Advance(sent)
  /\ UNCHANGED handlerVars

\* one send: email at 736-760, 1089-1116, WhatsApp at 763-781, 1117-1136
BatchSend ==
  /\ fn.op = "batch" /\ fn.pc = "sending" /\ fn.i <= Len(fn.recipients)
  /\ HasChannel(fn.recipients[fn.i], fn.channel)
  /\ \E outcome \in SendOutcomes :
       fn' = Advance([fn EXCEPT
                !.log = Append(fn.log, [i |-> fn.i, channel |-> fn.channel, outcome |-> outcome]),
                !.result = recordSend(fn.result, fn.recipients[fn.i].role, fn.channel, outcome)])
  /\ UNCHANGED handlerVars

BatchSkip ==
  /\ fn.op = "batch" /\ fn.pc = "sending" /\ fn.i <= Len(fn.recipients)
  /\ ~HasChannel(fn.recipients[fn.i], fn.channel)
  /\ fn' = Advance(fn)
  /\ UNCHANGED handlerVars

\* return result
BatchReturn ==
  /\ fn.op = "batch" /\ fn.pc = "sending" /\ fn.i > Len(fn.recipients)
  /\ fn' = [fn EXCEPT !.pc = "returned"]
  /\ UNCHANGED handlerVars

NextBatch == BatchSend \/ BatchSkip \/ BatchReturn

SpecBatch == InitBatch /\ [][NextBatch]_vars

\* ---------------------------------------------------------------- C23
\* the sends the loop owes for the positions before (i, channel), in order
C23_Due(recipients, i, channel) ==
  LET Pos(k) == [i |-> (k + 1) \div 2, channel |-> IF k % 2 = 1 THEN "email" ELSE "whatsapp"]
      Owed(k) ==
        LET r == recipients[Pos(k).i]
        IN IF Pos(k).channel = "email" THEN r.email
           ELSE Len(r.phone) = 10 /\ (r.role = "mentor" => r.email)
      upto == 2 * (i - 1) + (IF channel = "whatsapp" THEN 1 ELSE 0)
  IN SelectSeq([k \in 1..upto |-> Pos(k)], LAMBDA p : Owed(2 * p.i - (IF p.channel = "email" THEN 1 ELSE 0)))

C23_Successes(role, channel) ==
  Cardinality({k \in 1..Len(fn.log) :
                 /\ fn.recipients[fn.log[k].i].role = role
                 /\ fn.log[k].channel = channel
                 /\ fn.log[k].outcome = "success"})

\* C23: a failed or throwing send never aborts the batch: every later
\* recipient and channel is still attempted, in order, and each returned
\* per-channel count equals the number of sends on that channel that
\* reported success.
C23_BatchGoesOn ==
  fn.op = "batch" =>
    /\ [k \in 1..Len(fn.log) |-> [i |-> fn.log[k].i, channel |-> fn.log[k].channel]]
         = C23_Due(fn.recipients, fn.i, fn.channel)
    /\ fn.result.studentsSent = C23_Successes("student", "email")
    /\ fn.result.whatsappSent.students = C23_Successes("student", "whatsapp")
    /\ fn.result.supermentorsSent = C23_Successes("supermentor", "email")
    /\ fn.result.whatsappSent.supermentors = C23_Successes("supermentor", "whatsapp")
    /\ fn.result.mentorSent = (C23_Successes("mentor", "email") = 1)
    /\ fn.result.whatsappSent.mentor = (C23_Successes("mentor", "whatsapp") = 1)

C23_Witness ==
  /\ fn.op = "batch" /\ fn.pc = "returned"
  /\ Len(fn.recipients) = 4
  /\ Len(fn.log) = 8
  /\ fn.log[1].outcome = "throw"
  /\ fn.log[2].outcome = "failure"
  /\ \A k \in 3..8 : fn.log[k].outcome = "success"
  /\ fn.result.studentsSent = 1
  /\ fn.result.whatsappSent.students = 1
  /\ fn.result.supermentorsSent = 1

\* ---------------------------------------------------------------- C31
C31_Call(kind) == fn.op = "links" /\ fn'.ncalls # fn.ncalls /\ fn'.call.kind = kind

C31_Frame ==
  /\ C31_Call("POST") => fn'.initial_session_material = fn.initial_session_material
  /\ (C31_Call("PUT") /\ fn'.call.status = 200) =>
       (fn'.initial_session_material # fn.initial_session_material)
         # (fn'.session_material # fn.session_material)
  /\ C31_Call("GET") =>
       /\ fn'.initial_session_material = fn.initial_session_material
       /\ fn'.session_material = fn.session_material

\* C31: the two material lists are independent for writes: POST leaves
\* initial_session_material unchanged, a successful PUT changes exactly one of
\* the two columns, and GET writes nothing.
C31_IndependentWrites == [][C31_Frame]_vars

\* a PUT of a link both lists held that took it from the initial list only
C31_Witness ==
  /\ fn.op = "links" /\ fn.call.kind = "PUT" /\ fn.call.status = 200
  /\ includes(fn.call.initialLinks, fn.call.newLinks[1])
  /\ includes(fn.call.sessionLinks, fn.call.newLinks[1])
  /\ fn.session_material = fn.call.before
  /\ ~includes(parseLinks(fn.initial_session_material), fn.call.newLinks[1])

\* ---------------------------------------------------------------- C36
C36_GetAfterPut ==
  (fn.op = "links" /\ fn.call.kind = "PUT" /\ fn.call.status = 200
     /\ fn'.ncalls # fn.ncalls /\ fn'.call.kind = "GET") =>
    \A i \in 1..Len(fn'.call.allLinks) : fn'.call.allLinks[i] # fn.call.newLinks[1]

\* C36: after a PUT that deletes link X returned success, a GET of the same
\* session no longer lists X in its merged links, whatever the two columns
\* held.
C36_DeleteIsEffective == [][C36_GetAfterPut]_vars

\* the same with X held by one list only
C36_OneList ==
  [][(fn.op = "links" /\ fn.call.kind = "PUT" /\ fn.call.status = 200
        /\ ~(includes(fn.call.initialLinks, fn.call.newLinks[1])
               /\ includes(fn.call.sessionLinks, fn.call.newLinks[1])))
       => C36_GetAfterPut]_vars

\* --------------------------------- material requests on the rows of one table
MaxMaterialRows == 2

\* the filter a request puts on the table: POST takes the id, else date and
\* time, else date and mentor; PUT takes date and time only
Selector(kind, req) ==
  IF kind = "POST" /\ req.sessionId # 0 THEN "id"
  ELSE IF req.date # 0 /\ req.time # 0 THEN "datetime"
  ELSE IF kind = "POST" /\ req.date # 0 /\ req.mentorId # 0 THEN "datementor"
  ELSE "none"

\* the rows .eq(...).eq(...) lets through
Selected(rows, kind, req) ==
  {r \in DOMAIN rows :
     CASE Selector(kind, req) = "id" -> rows[r].id = req.sessionId
       [] Selector(kind, req) = "datetime" -> rows[r].date = req.date /\ rows[r].time = req.time
       [] Selector(kind, req) = "datementor" -> rows[r].date = req.date /\ rows[r].mentor_id = req.mentorId
       [] OTHER -> FALSE}

\* .single() that takes the first of several rows
singleMutFirst(matches) ==
  IF matches = {} THEN 0 ELSE CHOOSE r \in matches : \A q \in matches : r <= q

\* .single(): the row, or an error (0) when none or several rows come back
single(matches) ==
  IF Cardinality(matches) = 1 THEN CHOOSE r \in matches : TRUE ELSE 0

InitMaterial ==
  /\ Quiet
  /\ \E rows \in [1..MaxMaterialRows -> [date : {1}, time : {1, 2}, mentor_id : {1, 2}]] :
       fn = [op |-> "material",
             rows |-> [r \in 1..MaxMaterialRows |->
                         [id |-> r, date |-> rows[r].date, time |-> rows[r].time,
                          mentor_id |-> rows[r].mentor_id,
                          initial_session_material |-> <<"a">>, session_material |-> <<>>]],
             reqs |-> [p \in {1, 2} |->
                         [pc |-> "new", kind |-> "none", req |-> <<>>, link |-> <<>>,
                          column |-> "none", value |-> <<>>, status |-> 0,
                          updated |-> {}, after |-> {}]]]

\* a request up to the answer of its select: 400 without a selector, 404 when
\* .single() fails or PUT finds the link in no list, else the text to store
MaterialFetch(p) ==
  /\ fn.op = "material" /\ fn.reqs[p].pc = "new"
  /\ \E kind \in {"POST", "PUT"}, link \in {<<"a">>, <<"b">>},
        req \in {[sessionId |-> i, date |-> 0, time |-> 0, mentorId |-> 0] : i \in 1..(MaxMaterialRows + 1)}
                  \cup [sessionId : {0}, date : {1}, time : 0..2, mentorId : 0..2] :
       LET row == single(Selected(fn.rows, kind, req))
           initialLinks == parseLinks(fn.rows[row].initial_session_material)
           sessionLinks == parseLinks(fn.rows[row].session_material)
           answered(status) ==
             [fn.reqs[p] EXCEPT !.pc = "done", !.kind = kind, !.req = req, !.link = link,
                                !.status = status,
                                !.after = {q \in {1, 2} : fn.reqs[q].pc = "done"}]
           fetched(column, links) ==
             [answered(0) EXCEPT !.pc = "fetched", !.column = column, !.value = join(links)]
       IN fn' = [fn EXCEPT !.reqs[p] =
                   IF Selector(kind, req) = "none" THEN answered(400)
                   ELSE IF row = 0 THEN answered(404)
                   ELSE IF kind = "POST"
                     THEN fetched("session_material", addNewLinks(sessionLinks, <<link>>))
                   ELSE IF includes(initialLinks, link)
                     THEN fetched("initial_session_material", without(initialLinks, link))
                   ELSE IF includes(sessionLinks, link)
                     THEN fetched("session_material", without(sessionLinks, link))
                   ELSE answered(404)]
  /\ UNCHANGED handlerVars

\* .update(...).eq(...): every row the filter lets through is written, or
\* the update fails and the request answers 500
MaterialUpdate(p) ==
  /\ fn.op = "material" /\ fn.reqs[p].pc = "fetched"
  /\ LET r == fn.reqs[p]
         hit == Selected(fn.rows, r.kind, r.req)
     IN \/ fn' = [fn EXCEPT !.reqs[p].pc = "done", !.reqs[p].status = 500]
        \/ fn' = [fn EXCEPT
                    !.rows = [x \in DOMAIN fn.rows |->
                                IF x \notin hit THEN fn.rows[x]
                                ELSE IF r.column = "session_material"
                                  THEN [fn.rows[x] EXCEPT !.session_material = r.value]
                                  ELSE [fn.rows[x] EXCEPT !.initial_session_material = r.value]],
                    !.reqs[p].pc = "done", !.reqs[p].status = 200, !.reqs[p].updated = hit]
  /\ UNCHANGED handlerVars

NextMaterial == \E p \in {1, 2} : MaterialFetch(p) \/ MaterialUpdate(p)

SpecMaterial == InitMaterial /\ [][NextMaterial]_vars

\* ---------------------------------------------------------------- C32
C32_Matching(p) ==
  LET r == fn.reqs[p].req
  IN {x \in DOMAIN fn.rows :
        \/ fn.reqs[p].kind = "POST" /\ r.sessionId # 0 /\ fn.rows[x].id = r.sessionId
        \/ (fn.reqs[p].kind = "PUT" \/ r.sessionId = 0) /\ r.time # 0
             /\ fn.rows[x].date = r.date /\ fn.rows[x].time = r.time
        \/ fn.reqs[p].kind = "POST" /\ r.sessionId = 0 /\ r.time = 0 /\ r.mentorId # 0
             /\ fn.rows[x].date = r.date /\ fn.rows[x].mentor_id = r.mentorId}

C32_Addressed(p) ==
  /\ fn.reqs[p].pc = "done"
  /\ fn.reqs[p].req.sessionId + fn.reqs[p].req.time + fn.reqs[p].req.mentorId > 0
  /\ fn.reqs[p].kind = "PUT" => fn.reqs[p].req.time # 0

C35_BothPosted ==
  /\ fn.op = "material"
  /\ \A p \in {1, 2} : fn.reqs[p].pc = "done" /\ fn.reqs[p].kind = "POST" /\ fn.reqs[p].status = 200
  /\ fn.reqs[1].updated = fn.reqs[2].updated

C35_Stored(p) ==
  \A x \in fn.reqs[p].updated :
    \E i \in 1..Len(parseLinks(fn.rows[x].session_material)) :
      parseLinks(fn.rows[x].session_material)[i] = fn.reqs[p].link

\* C35: when two material POSTs for the same session overlap, every link of
\* every POST that returned success is in the stored session_material once
\* both have completed.
C35_NoLostLink == C35_BothPosted => (C35_Stored(1) /\ C35_Stored(2))

\* the same for two POSTs of which one began after the other had answered
C35_OneAfterTheOther ==
  (C35_BothPosted /\ (1 \in fn.reqs[2].after \/ 2 \in fn.reqs[1].after)) =>
    (C35_Stored(1) /\ C35_Stored(2))

\* ---------------------------------------------------------------- C37
C37_RunOver == su.pc = "returned" /\ su.status = 200 /\ su.session # NoRow

C37_Stored == store[<<su.tableName, su.sessionId>>].teams_meeting_link

\* C37: after a run of session-update completes, a stored meeting link that
\* is not null never refers to a meeting this run deleted at the provider,
\* whatever the outcomes of the deletion and of the creation.
C37_NoStalePointer ==
  (C37_RunOver /\ su.meetingDeleted) =>
    (C37_Stored = NoLink \/ C37_Stored # su.session.teams_meeting_link)

\* the same for the runs whose creation and whose write of the link succeeded
C37_AfterCreate ==
  (C37_RunOver /\ su.meetingDeleted /\ su.meetingCreated
     /\ C37_Stored = su.newMeetingLink) =>
    C37_Stored # su.session.teams_meeting_link

\* ---------------------------------------------------------------- C34
C34_NoDoubleBooking(s) ==
  \A a \in SessionKeys, b \in SessionKeys :
    (a # b /\ s[a].date = s[b].date /\ s[a].time = s[b].time
       /\ EffectiveMentor(s[a]) # NoMentor)
      => EffectiveMentor(s[a]) # EffectiveMentor(s[b])

C34_SwapAnswered == h.kind = "swap" /\ h.pc = "done" /\ h.status = 200

\* C34: a successful swap or swap-removal request that starts with no mentor
\* being the effective mentor of two sessions at one (date, time) ends with
\* no mentor being so; hence no sequence of them, run one at a time, books a
\* mentor twice.
C34_NoDoubleBookingKept ==
  (C34_SwapAnswered /\ C34_NoDoubleBooking(pre)) => C34_NoDoubleBooking(store)

\* ------------------------- two reschedule requests on one session at a time
\* Each request runs reschedule (fetch, update) and then session-update
\* (fetch, delete, create, persist, reset); every await is a step, and the
\* steps of the two requests interleave freely. The meeting made by request p
\* has the join URL p; the session starts with the join URL 3.
InitRace ==
  /\ Quiet
  /\ \E es \in BOOLEAN, ws \in BOOLEAN :
       fn = [op |-> "race",
             session |-> [date |-> 1, teams_meeting_link |-> 3,
                          email_sent |-> es, whatsapp_sent |-> ws],
             calendar |-> {3},
             runs |-> [p \in {1, 2} |->
                         [pc |-> "fetch", newDate |-> 0, session |-> <<>>,
                          meetingDeleted |-> FALSE, newMeetingLink |-> NoLink]],
             log |-> <<>>]

RaceTo(p, pc) == [fn EXCEPT !.runs[p].pc = pc, !.log = Append(fn.log, <<p, fn.runs[p].pc>>)]

\* reschedule: select('*').eq('id', sessionId).single()
RaceFetch(p) ==
  /\ fn.op = "race" /\ fn.runs[p].pc = "fetch"
  /\ \E newDate \in {2, 3} : fn' = [RaceTo(p, "update") EXCEPT !.runs[p].newDate = newDate]
  /\ UNCHANGED handlerVars

\* reschedule: update({ date, day, time }).eq('id', sessionId), then the call
RaceUpdate(p) ==
  /\ fn.op = "race" /\ fn.runs[p].pc = "update"
  /\ fn' = [RaceTo(p, "sufetch") EXCEPT !.session.date = fn.runs[p].newDate]
  /\ UNCHANGED handlerVars

\* session-update: the session as this run sees it from here on
RaceSUFetch(p) ==
  /\ fn.op = "race" /\ fn.runs[p].pc = "sufetch"
  /\ fn' = [RaceTo(p, IF fn.session.teams_meeting_link # NoLink THEN "delete" ELSE "reset")
              EXCEPT !.runs[p].session = fn.session]
  /\ UNCHANGED handlerVars

\* deleteTeamsMeeting(accessToken, session.teams_meeting_link)
RaceDelete(p) ==
  /\ fn.op = "race" /\ fn.runs[p].pc = "delete"
  /\ LET link == fn.runs[p].session.teams_meeting_link
     IN fn' = [RaceTo(p, "create") EXCEPT
                 !.calendar = fn.calendar \ {link},
                 !.runs[p].meetingDeleted = link \in fn.calendar]
  /\ UNCHANGED handlerVars

\* createTeamsMeeting(): a new meeting, or null
RaceCreate(p) ==
  /\ fn.op = "race" /\ fn.runs[p].pc = "create"
  /\ \/ fn' = RaceTo(p, "reset")
     \/ fn' = [RaceTo(p, "persist") EXCEPT !.calendar = fn.calendar \cup {p},
                                           !.runs[p].newMeetingLink = p]
  /\ UNCHANGED handlerVars

\* the write of the new link with its old value kept
RacePersistMutKeep(p) ==
  /\ fn.op = "race" /\ fn.runs[p].pc = "persist"
  /\ fn' = RaceTo(p, "reset")
  /\ UNCHANGED handlerVars

\* update({ teams_meeting_link: newLink }).eq('id', sessionId)
RacePersist(p) ==
  /\ fn.op = "race" /\ fn.runs[p].pc = "persist"
  /\ fn' = [RaceTo(p, "reset") EXCEPT !.session.teams_meeting_link = fn.runs[p].newMeetingLink]
  /\ UNCHANGED handlerVars

\* the notifications, then update({ email_sent: false, whatsapp_sent: false })
\* when the fetched session had a flag set
RaceReset(p) ==
  /\ fn.op = "race" /\ fn.runs[p].pc = "reset"
  /\ fn' = IF fn.runs[p].session.email_sent \/ fn.runs[p].session.whatsapp_sent
             THEN [RaceTo(p, "done") EXCEPT !.session.email_sent = FALSE,
                                            !.session.whatsapp_sent = FALSE]
             ELSE RaceTo(p, "done")
  /\ UNCHANGED handlerVars

NextRace ==
  \E p \in {1, 2} :
    \/ RaceFetch(p)
    \/ RaceUpdate(p)
    \/ RaceSUFetch(p)
    \/ RaceDelete(p)
    \/ RaceCreate(p)
    \/ RacePersist(p)
    \/ RaceReset(p)

SpecRace == InitRace /\ [][NextRace]_vars

\* ---------------------------------------------------------------- C33
\* the position of step <<p, pc>> in the log, 0 if it has not been taken
C33_At(p, pc) ==
  IF \E i \in 1..Len(fn.log) : fn.log[i] = <<p, pc>>
    THEN CHOOSE i \in 1..Len(fn.log) : fn.log[i] = <<p, pc>>
    ELSE 0

C33_BothCreated ==
  /\ fn.op = "race"
  /\ \A p \in {1, 2} : fn.runs[p].pc = "done" /\ fn.runs[p].newMeetingLink = p

\* C33: two simultaneous reschedule requests for a session with a meeting
\* link are not serialized: both runs can create a meeting; the stored link
\* then refers to the one written last, and the other meeting stays at the
\* provider, referred to by nothing, unless the later run had fetched its
\* link and deleted it.
C33_DoubleCreate ==
  C33_BothCreated =>
    LET last == IF C33_At(1, "persist") > C33_At(2, "persist") THEN 1 ELSE 2
        first == 3 - last
    IN /\ fn.session.teams_meeting_link = last
       /\ last \in fn.calendar
       /\ first \in fn.calendar <=> fn.runs[last].session.teams_meeting_link # first

\* both runs created a meeting, and the flag reset of run 1 came between the
\* fetch and the flag reset of run 2
C33_Witness ==
  /\ C33_BothCreated
  /\ fn.runs[1].meetingDeleted /\ ~fn.runs[2].meetingDeleted
  /\ C33_At(2, "sufetch") < C33_At(1, "reset")
  /\ C33_At(1, "reset") < C33_At(2, "reset")
  /\ fn.runs[2].session.email_sent
  /\ fn.session.teams_meeting_link = 1
  /\ fn.calendar = {1, 2}

\* what a serialized pair of requests would leave: no meeting at the
\* provider but the stored one
C33_Serialized ==
  (fn.op = "race" /\ \A p \in {1, 2} : fn.runs[p].pc = "done") =>
    \A m \in fn.calendar : m = fn.session.teams_meeting_link

\* ------------------------------------------- the two createTeamsMeeting flows
\* What the provider answers to the three requests of one creation:
\* step 1 (online meeting): the request throws, is refused, or answers with
\* joinUrl, with joinWebUrl only, or with neither; step 2 (mic/camera patch)
\* and step 3 (calendar event): answered ok, refused, or the request throws.

\* /api/teams/create-meeting: the join URL, or a throw
createTeamsMeetingEndpoint(o) ==
  IF o.step1 \in {"throws", "refused"} THEN "throw"
  ELSE IF o.step1 = "neither" THEN "throw"
  ELSE IF o.step3 \in {"throws", "refused"} THEN "throw"
  ELSE "joinUrl"

\* session-update: the join URL, null, or a throw
createTeamsMeetingHandler(o) ==
  IF o.step1 = "throws" THEN "throw"
  ELSE IF o.step1 = "refused" THEN "null"
  ELSE IF o.step1 \in {"neither", "joinWebUrl"} THEN "null"
  ELSE "joinUrl"

InitCreate ==
  /\ Quiet
  /\ \E o \in [step1 : {"throws", "refused", "joinUrl", "joinWebUrl", "neither"},
               step2 : {"ok", "refused", "throws"},
               step3 : {"ok", "refused", "throws"}] :
       fn = [op |-> "create", outcomes |-> o, endpoint |-> "none", handler |-> "none"]

EndpointCreate ==
  /\ fn.op = "create" /\ fn.endpoint = "none"
  /\ fn' = [fn EXCEPT !.endpoint = createTeamsMeetingEndpoint(fn.outcomes)]
  /\ UNCHANGED handlerVars

HandlerCreate ==
  /\ fn.op = "create" /\ fn.handler = "none"
  /\ fn' = [fn EXCEPT !.handler = createTeamsMeetingHandler(fn.outcomes)]
  /\ UNCHANGED handlerVars

NextCreate == EndpointCreate \/ HandlerCreate

SpecCreate == InitCreate /\ [][NextCreate]_vars

\* ---------------------------------------------------------------- C38
C38_BothRan == fn.op = "create" /\ fn.endpoint # "none" /\ fn.handler # "none"

\* C38: for every combination of outcomes of the three steps the stand-alone
\* endpoint and session-update's createTeamsMeeting both return the join URL
\* of the created meeting or both fail, and an online meeting created with a
\* join URL never goes without that URL being returned.
C38_SameFlow ==
  C38_BothRan =>
    /\ fn.endpoint = "joinUrl" <=> fn.handler = "joinUrl"
    /\ fn.outcomes.step1 \in {"joinUrl", "joinWebUrl"} =>
         (fn.endpoint = "joinUrl" /\ fn.handler = "joinUrl")

\* the same when step 1 answers with joinUrl and step 3 is answered ok, and
\* when step 1 fails
C38_SameOnPlainOutcomes ==
  (C38_BothRan /\ fn.outcomes.step1 # "joinWebUrl"
     /\ (fn.outcomes.step1 = "joinUrl" => fn.outcomes.step3 = "ok")) =>
    (fn.endpoint = "joinUrl" <=> fn.handler = "joinUrl")

\* ------------------------------------------------------- the auth context
\* The provider's state (user, session, loading, mounted), the effect's
\* isCancelled, the Supabase client's own session (stored), the position of
\* initAuth (init) with what its session check yielded (outcome), and the
\* position of one auth-state-change callback (event).

MaxAuthEvents == 2

NoUser == [id |-> 0, role |-> "none"]

NoSession == [user |-> NoUser]

\* no session, or the session of a mentor, of a student, of a user without role
Sessions ==
  {NoSession} \cup
    { [user |-> [id |-> i, role |-> r]] :
        <<i, r>> \in {<<1, "mentor">>, <<2, "student">>, <<3, "none">>} }

\* REQUIRED_ROLE is 'mentor'
hasValidRole(user) == user # NoUser /\ user.role = "mentor"

userToMentor(user) ==
  IF user = NoUser THEN NoUser ELSE [id |-> user.id, role |-> user.role]

isAuthenticated == fn.session # NoSession

InitProvider ==
  /\ Quiet
  /\ \E s \in Sessions :
       fn = [op |-> "auth", stored |-> s, session |-> NoSession, user |-> NoUser,
             loading |-> TRUE, mounted |-> FALSE, cancelled |-> FALSE,
             init |-> "idle", outcome |-> "pending", event |-> "none", nev |-> 0]

\* both effects: mounted is set, initAuth starts its session check and the
\* auth-state-change callback is subscribed
Mount ==
  /\ fn.op = "auth" /\ ~fn.mounted
  /\ fn' = [fn EXCEPT !.mounted = TRUE, !.init = "race"]
  /\ UNCHANGED handlerVars

\* the race of getSession against the 5-second timer settles
initAuthMutStuck ==
  /\ fn.op = "auth" /\ fn.init = "race"
  /\ \E o \in {"answered", "failed", "timeout"} :
       LET result == IF o = "answered" THEN fn.stored ELSE NoSession
           found == ~fn.cancelled /\ result # NoSession
       IN IF found /\ ~hasValidRole(result.user)
          THEN fn' = [fn EXCEPT !.init = "signOut", !.outcome = "wrongRole"]
          ELSE fn' = [fn EXCEPT
                 !.init = "done",
                 !.outcome = IF o # "answered" THEN o
                             ELSE IF result = NoSession THEN "none" ELSE "session",
                 !.session = IF found THEN result ELSE @,
                 !.user = IF found THEN userToMentor(result.user) ELSE @,
                 !.loading = IF fn.cancelled \/ o = "timeout" THEN @ ELSE FALSE]
  /\ UNCHANGED handlerVars

initAuth ==
  /\ fn.op = "auth" /\ fn.init = "race"
  /\ \E o \in {"answered", "failed", "timeout"} :
       LET result == IF o = "answered" THEN fn.stored ELSE NoSession
           found == ~fn.cancelled /\ result # NoSession
       IN IF found /\ ~hasValidRole(result.user)
          THEN fn' = [fn EXCEPT !.init = "signOut", !.outcome = "wrongRole"]
          ELSE fn' = [fn EXCEPT
                 !.init = "done",
                 !.outcome = IF o # "answered" THEN o
                             ELSE IF result = NoSession THEN "none" ELSE "session",
                 !.session = IF found THEN result ELSE @,
                 !.user = IF found THEN userToMentor(result.user) ELSE @,
                 !.loading = IF fn.cancelled THEN @ ELSE FALSE]
  /\ UNCHANGED handlerVars

\* initAuth's signOut of a user of the wrong role settles; a sign-out that
\* removed the client's session also notifies the subscribed callback
initAuthSignedOut ==
  /\ fn.op = "auth" /\ fn.init = "signOut"
  /\ \E o \in {"ok", "error", "throws"} :
       fn' = [fn EXCEPT
                !.init = "done",
                !.stored = IF o = "ok" THEN NoSession ELSE @,
                !.session = IF o = "throws" \/ fn.cancelled THEN @ ELSE NoSession,
                !.user = IF o = "throws" \/ fn.cancelled THEN @ ELSE NoUser,
                !.loading = IF fn.cancelled THEN @ ELSE FALSE]
  /\ UNCHANGED handlerVars

\* an auth state change event carrying the client's new session
onAuthStateChange ==
  /\ fn.op = "auth" /\ fn.mounted /\ ~fn.cancelled
  /\ fn.event = "none" /\ fn.nev < MaxAuthEvents
  /\ \E newSession \in Sessions :
       IF newSession # NoSession /\ ~hasValidRole(newSession.user)
       THEN fn' = [fn EXCEPT !.stored = newSession, !.nev = @ + 1,
                             !.event = "signOut"]
       ELSE fn' = [fn EXCEPT !.stored = newSession, !.nev = @ + 1,
                             !.session = newSession,
                             !.user = userToMentor(newSession.user),
                             !.loading = FALSE]
  /\ UNCHANGED handlerVars

\* the callback's signOut settles
onAuthStateChangeSignedOut ==
  /\ fn.op = "auth" /\ fn.event = "signOut"
  /\ \E o \in {"ok", "error", "throws"} :
       LET sets == o # "throws" /\ ~fn.cancelled
           notified == o = "ok" /\ ~fn.cancelled
       IN fn' = [fn EXCEPT
                   !.event = "none",
                   !.stored = IF o = "ok" THEN NoSession ELSE @,
                   !.session = IF sets \/ notified THEN NoSession ELSE @,
                   !.user = IF sets \/ notified THEN NoUser ELSE @,
                   !.loading = IF sets \/ notified THEN FALSE ELSE @]
  /\ UNCHANGED handlerVars

signOut ==
  /\ fn.op = "auth" /\ fn.mounted /\ ~fn.cancelled
  /\ \E o \in {"ok", "error", "throws"} :
       fn' = [fn EXCEPT
                !.stored = IF o = "ok" THEN NoSession ELSE @,
                !.session = NoSession,
                !.user = NoUser,
                !.loading = IF o = "ok" THEN FALSE ELSE @]
  /\ UNCHANGED handlerVars

refreshAuth ==
  /\ fn.op = "auth" /\ fn.mounted /\ ~fn.cancelled
  /\ \E o \in {"answered", "throws"} :
       IF o = "throws" THEN fn' = fn
       ELSE fn' = [fn EXCEPT !.session = fn.stored,
                             !.user = userToMentor(fn.stored.user)]
  /\ UNCHANGED handlerVars

\* the effect's cleanup
Unmount ==
  /\ fn.op = "auth" /\ fn.mounted /\ ~fn.cancelled
  /\ fn' = [fn EXCEPT !.cancelled = TRUE]
  /\ UNCHANGED handlerVars

NextAuth ==
  \/ Mount
  \/ initAuth
  \/ initAuthSignedOut
  \/ onAuthStateChange
  \/ onAuthStateChangeSignedOut
  \/ signOut
  \/ refreshAuth
  \/ Unmount

\* every awaited promise of initAuth settles: the session check by its timer
\* at the latest, the signOut request by its answer or its failure
SpecAuthLive ==
  /\ InitProvider /\ [][NextAuth]_vars
  /\ WF_vars(initAuth) /\ WF_vars(initAuthSignedOut)

\* ---------------------------------------------------------------- C39
\* C39: whenever the mounted context holds a session (isAuthenticated is
\* true) the session's user has the role 'mentor'.
C39_RoleGate ==
  (fn.op = "auth" /\ fn.mounted /\ ~fn.cancelled /\ isAuthenticated) =>
    hasValidRole(fn.session.user)

\* the same of the sessions set by initAuth and by the auth-state-change
\* callback: every step of the context but refreshAuth keeps the gate
C39_GatedStep ==
  (fn.op = "auth" /\ fn'.session # fn.session /\ fn'.session # NoSession
     /\ ~hasValidRole(fn'.session.user)) =>
    fn'.session = fn.stored

C39_GateButRefresh == [][C39_GatedStep]_vars

\* ---------------------------------------------------------------- C40
C40_InitSettled(o) ==
  fn.op = "auth" /\ fn.init = "race" /\ fn'.init = "done" /\ fn'.outcome = o

C40_FailureStep ==
  (C40_InitSettled("timeout") \/ C40_InitSettled("failed")) =>
    /\ fn'.user = fn.user /\ fn'.session = fn.session
    /\ (fn.nev = 0 /\ fn.session = NoSession) =>
         (fn'.session = NoSession /\ fn'.user = NoUser)

C40_Left == fn.op = "auth" /\ (fn.loading = FALSE \/ fn.cancelled)

====
